---- MODULE Spec2Model ----
(***************************************************************************)
(* EarthLink-AI: the map/chat session state (MapChatProvider), the panel  *)
(* state (LayoutProvider), the direct map interaction handlers of         *)
(* MapComponent, the fly-to effect of the renderer and the agent tools of *)
(* useMapChatTools, as one state machine.                                  *)
(*                                                                         *)
(* Coordinates are integers in units of 0.001 degree (180 degrees is      *)
(* 180000).  Every coordinate an agent supplies in this model is even, so *)
(* that the midpoint (a + b) / 2 of the code is the exact (a + b) \div 2. *)
(* A handler runs to completion inside one React batch: its setter calls  *)
(* are applied in call order to a copy of the store and committed at once.*)
(***************************************************************************)
EXTENDS Integers, Sequences, FiniteSets, TLC

VARIABLES
    viewport,              \* MapChatState.viewport
    flyToRequest,          \* MapChatState.flyToRequest (Null or a request)
    selectedPoint,         \* MapChatState.selectedPoint
    selectedRegion,        \* MapChatState.selectedRegion
    bboxCorner1,           \* MapChatState.bboxCorner1
    selectionMode,         \* MapChatState.selectionMode
    highlightedLocations,  \* MapChatState.highlightedLocations
    isLeftSidebarOpen,     \* LayoutState.isLeftSidebarOpen
    leftSidebarContent,    \* LayoutState.leftSidebarContent
    leftSidebarAltContent, \* LayoutState.leftSidebarAltContent
    nextReqId,             \* identity of the next object flyTo allocates
    mapReady,              \* mapRef.current is set
    effectDeps,            \* flyToRequest as of MapComponent's last commit
    effectQueued,          \* the fly-to effect of that commit has yet to run
    applied,               \* the calls of map.flyTo so far: request id and move
    pending,               \* the agent operation awaiting its fetch
    toolResult             \* what the last agent operation returned

vars == <<viewport, flyToRequest, selectedPoint, selectedRegion, bboxCorner1,
          selectionMode, highlightedLocations, isLeftSidebarOpen,
          leftSidebarContent, leftSidebarAltContent, nextReqId, mapReady,
          effectDeps, effectQueued, applied, pending, toolResult>>

renderVars == <<mapReady, effectDeps, effectQueued, applied>>

(***************************************************************************)
(* Values                                                                  *)
(***************************************************************************)
\* JavaScript null, for the nullable object-valued fields
Null == [type |-> "null"]

\* a non-finite number (NaN, or what Number() makes of undefined)
NaN == 999999999

\* an omitted (undefined or null) numeric argument or field
Absent == 888888888

\* bound on the number of flyTo calls of one behaviour
MaxFlyTo == 2

IsFinite(x) == x # NaN /\ x # Absent

Min(a, b) == IF a <= b THEN a ELSE b

Max(a, b) == IF a >= b THEN a ELSE b

SAN_FRANCISCO_VIEWPORT == [longitude |-> -122419, latitude |-> 37775, zoom |-> 11]

Point(lng, lat) == [type |-> "point", lng |-> lng, lat |-> lat]

BboxRegion(b) == [type |-> "bbox", bbox |-> b]

(***************************************************************************)
(* The store: every field of both providers, as one record                 *)
(***************************************************************************)
Store ==
    [viewport |-> viewport, flyToRequest |-> flyToRequest,
     selectedPoint |-> selectedPoint, selectedRegion |-> selectedRegion,
     bboxCorner1 |-> bboxCorner1, selectionMode |-> selectionMode,
     highlightedLocations |-> highlightedLocations,
     isLeftSidebarOpen |-> isLeftSidebarOpen,
     leftSidebarContent |-> leftSidebarContent,
     leftSidebarAltContent |-> leftSidebarAltContent,
     nextReqId |-> nextReqId]

Commit(s) ==
    /\ viewport' = s.viewport
    /\ flyToRequest' = s.flyToRequest
    /\ selectedPoint' = s.selectedPoint
    /\ selectedRegion' = s.selectedRegion
    /\ bboxCorner1' = s.bboxCorner1
    /\ selectionMode' = s.selectionMode
    /\ highlightedLocations' = s.highlightedLocations
    /\ isLeftSidebarOpen' = s.isLeftSidebarOpen
    /\ leftSidebarContent' = s.leftSidebarContent
    /\ leftSidebarAltContent' = s.leftSidebarAltContent
    /\ nextReqId' = s.nextReqId

\* the store holds s
StoreIs(s) ==
    /\ viewport = s.viewport
    /\ flyToRequest = s.flyToRequest
    /\ selectedPoint = s.selectedPoint
    /\ selectedRegion = s.selectedRegion
    /\ bboxCorner1 = s.bboxCorner1
    /\ selectionMode = s.selectionMode
    /\ highlightedLocations = s.highlightedLocations
    /\ isLeftSidebarOpen = s.isLeftSidebarOpen
    /\ leftSidebarContent = s.leftSidebarContent
    /\ leftSidebarAltContent = s.leftSidebarAltContent
    /\ nextReqId = s.nextReqId

defaultState ==
    [viewport |-> SAN_FRANCISCO_VIEWPORT, flyToRequest |-> Null,
     selectedPoint |-> Null, selectedRegion |-> Null, bboxCorner1 |-> Null,
     selectionMode |-> "point", highlightedLocations |-> <<>>,
     isLeftSidebarOpen |-> FALSE, leftSidebarContent |-> Null,
     leftSidebarAltContent |-> Null, nextReqId |-> 1]

(***************************************************************************)
(* MapChatProvider: the setters are the bare useState setters              *)
(***************************************************************************)
setViewport(s, v) == [s EXCEPT !.viewport = v]

setSelectedPoint(s, p) == [s EXCEPT !.selectedPoint = p]

setSelectedRegion(s, r) == [s EXCEPT !.selectedRegion = r]

setBboxCorner1(s, p) == [s EXCEPT !.bboxCorner1 = p]

setSelectionMode(s, m) == [s EXCEPT !.selectionMode = m]

setHighlightedLocations(s, h) ==
    [s EXCEPT !.highlightedLocations = h, !.selectedPoint = Null,
              !.selectedRegion = Null]

clearFlyToRequest(s) == [s EXCEPT !.flyToRequest = Null]

\* flyTo whose request prefers the pending request's zoom to its argument
flyTo_staleZoom(s, longitude, latitude, zoom) ==
    [s EXCEPT
       !.viewport = [longitude |-> longitude, latitude |-> latitude,
                     zoom |-> IF zoom # Absent THEN zoom ELSE s.viewport.zoom],
       !.flyToRequest =
           [type |-> "request", longitude |-> longitude, latitude |-> latitude,
            zoom |-> IF s.flyToRequest # Null THEN s.flyToRequest.zoom
                     ELSE IF zoom # Absent THEN zoom
                     ELSE 11,
            id |-> s.nextReqId],
       !.nextReqId = s.nextReqId + 1]

\* zoom ?? prev.zoom for the viewport, zoom ?? prev?.zoom ?? 11 for the request
flyTo(s, longitude, latitude, zoom) ==
    [s EXCEPT
       !.viewport = [longitude |-> longitude, latitude |-> latitude,
                     zoom |-> IF zoom # Absent THEN zoom ELSE s.viewport.zoom],
       !.flyToRequest =
           [type |-> "request", longitude |-> longitude, latitude |-> latitude,
            zoom |-> IF zoom # Absent THEN zoom
                     ELSE IF s.flyToRequest # Null THEN s.flyToRequest.zoom
                     ELSE 11,
            id |-> s.nextReqId],
       !.nextReqId = s.nextReqId + 1]

(***************************************************************************)
(* LayoutProvider                                                          *)
(***************************************************************************)
openLeftSidebar(s) == [s EXCEPT !.isLeftSidebarOpen = TRUE]

closeLeftSidebar(s) == [s EXCEPT !.isLeftSidebarOpen = FALSE]

\* setLeftSidebarContent that clears the alternate slot whatever keepAlt is
setLeftSidebarContent_dropsPrevious(s, content, keepAlt) ==
    [s EXCEPT !.leftSidebarAltContent = Null, !.leftSidebarContent = content]

setLeftSidebarContent(s, content, keepAlt) ==
    [s EXCEPT
       !.leftSidebarAltContent =
           IF keepAlt /\ s.leftSidebarContent # Null THEN s.leftSidebarContent
           ELSE IF ~keepAlt THEN Null
           ELSE s.leftSidebarAltContent,
       !.leftSidebarContent = content]

\* toggleSidebarView that leaves the alternate slot as it was
toggleSidebarView_keepsAlt(s) ==
    [s EXCEPT
       !.leftSidebarContent =
           IF s.leftSidebarAltContent # Null THEN s.leftSidebarAltContent
           ELSE s.leftSidebarContent]

\* the alt updater returns prev whatever alt is, and stores alt as the content
\* when alt != null
toggleSidebarView(s) ==
    [s EXCEPT
       !.leftSidebarAltContent = s.leftSidebarContent,
       !.leftSidebarContent =
           IF s.leftSidebarAltContent # Null THEN s.leftSidebarAltContent
           ELSE s.leftSidebarContent]

\* panel content is opaque: a view name and the Date.now() of its key
Content(view) == [type |-> "content", view |-> view]

\* an element with its key
KeyedContent(view, key) == [type |-> "content", view |-> view, key |-> key]

(***************************************************************************)
(* MapComponent: the handlers of direct map interaction                    *)
(***************************************************************************)
LngLat(lng, lat) == [lng |-> lng, lat |-> lat]

\* onClickPointButton without its setBboxCorner1(null)
onClickPointButton_keepsCorner(s) ==
    setSelectedRegion(setSelectionMode(s, "point"), Null)

onClickPointButton(s) ==
    setSelectedRegion(setBboxCorner1(setSelectionMode(s, "point"), Null), Null)

onClickRegionButton(s) ==
    setSelectedRegion(
        setBboxCorner1(setSelectedPoint(setSelectionMode(s, "region"), Null), Null),
        Null)

\* onClick without its setHighlightedLocations([])
onClick_keepsHighlights(s, lng, lat) ==
    IF s.selectionMode = "point"
    THEN setBboxCorner1(
             setSelectedRegion(setSelectedPoint(s, LngLat(lng, lat)), Null),
             Null)
    ELSE IF s.bboxCorner1 = Null
    THEN setSelectedRegion(
             setSelectedPoint(setBboxCorner1(s, LngLat(lng, lat)), Null),
             Null)
    ELSE setSelectedPoint(
             setBboxCorner1(
                 setSelectedRegion(
                     s, BboxRegion(<<Min(s.bboxCorner1.lng, lng),
                                     Min(s.bboxCorner1.lat, lat),
                                     Max(s.bboxCorner1.lng, lng),
                                     Max(s.bboxCorner1.lat, lat)>>)),
                 Null),
             Null)

\* onClick whose second click stores the two corners as clicked
onClick_unordered(s, lng, lat) ==
    LET s0 == setHighlightedLocations(s, <<>>)
    IN  IF s.selectionMode = "point"
        THEN setBboxCorner1(
                 setSelectedRegion(setSelectedPoint(s0, LngLat(lng, lat)), Null),
                 Null)
        ELSE IF s.bboxCorner1 = Null
        THEN setSelectedRegion(
                 setSelectedPoint(setBboxCorner1(s0, LngLat(lng, lat)), Null),
                 Null)
        ELSE setSelectedPoint(
                 setBboxCorner1(
                     setSelectedRegion(
                         s0, BboxRegion(<<s.bboxCorner1.lng, s.bboxCorner1.lat,
                                          lng, lat>>)),
                     Null),
                 Null)

onClick(s, lng, lat) ==
    LET s0 == setHighlightedLocations(s, <<>>)
    IN  IF s.selectionMode = "point"
        THEN setBboxCorner1(
                 setSelectedRegion(setSelectedPoint(s0, LngLat(lng, lat)), Null),
                 Null)
        ELSE IF s.bboxCorner1 = Null
        THEN setSelectedRegion(
                 setSelectedPoint(setBboxCorner1(s0, LngLat(lng, lat)), Null),
                 Null)
        ELSE LET minLng == Min(s.bboxCorner1.lng, lng)
                 maxLng == Max(s.bboxCorner1.lng, lng)
                 minLat == Min(s.bboxCorner1.lat, lat)
                 maxLat == Max(s.bboxCorner1.lat, lat)
             IN  setSelectedPoint(
                     setBboxCorner1(
                         setSelectedRegion(
                             s0, BboxRegion(<<minLng, minLat, maxLng, maxLat>>)),
                         Null),
                     Null)

onMove(s, viewState) == setViewport(s, viewState)

(***************************************************************************)
(* MapComponent: the overlay of the highlighted locations                  *)
(***************************************************************************)
\* loc.label ?? String(i + 1), i counted from 0 in the code
RenderedLabel(loc, i) ==
    IF "label" \in DOMAIN loc THEN loc.label ELSE ToString(i)

\* the labelPoints features: one label per highlight, at the point or at the
\* centre of the bbox
highlightedToGeoJSON(locations) ==
    [i \in 1..Len(locations) |->
        [label |-> RenderedLabel(locations[i], i),
         coordinates |->
             IF locations[i].type = "point"
             THEN <<locations[i].lng, locations[i].lat>>
             ELSE <<(locations[i].bbox[1] + locations[i].bbox[3]) \div 2,
                    (locations[i].bbox[2] + locations[i].bbox[4]) \div 2>>]]

(***************************************************************************)
(* MapComponent: the fly-to effect, run with the flyToRequest of the       *)
(* commit that scheduled it                                                *)
(***************************************************************************)
Clamp(lo, hi, x) == Max(lo, Min(hi, x))

\* Number(flyToRequest.zoom) || 11
ZoomOrDefault(z) == IF z = NaN \/ z = Absent \/ z = 0 THEN 11 ELSE z

\* map.flyTo called with the request as it is
CameraMove_unclamped(req) ==
    [longitude |-> req.longitude, latitude |-> req.latitude,
     zoom |-> ZoomOrDefault(req.zoom)]

\* the argument of map.flyTo
CameraMove(req) ==
    [longitude |-> Clamp(-180000, 180000, req.longitude),
     latitude |-> Clamp(-90000, 90000, req.latitude),
     zoom |-> Clamp(1, 18, ZoomOrDefault(req.zoom))]

EffectReturnsEarly(req, ready) == req = Null \/ ~ready

EffectDrops(req) == ~IsFinite(req.longitude) \/ ~IsFinite(req.latitude)

\* the effect without its clearFlyToRequest() after map.flyTo
flyToEffect_noClear(s, req, ready) ==
    IF EffectReturnsEarly(req, ready) THEN [store |-> s, move |-> Null]
    ELSE IF EffectDrops(req) THEN [store |-> clearFlyToRequest(s), move |-> Null]
    ELSE [store |-> s, move |-> CameraMove(req)]

\* what the effect does to the store, and the camera move it makes (or Null)
flyToEffect(s, req, ready) ==
    IF EffectReturnsEarly(req, ready) THEN [store |-> s, move |-> Null]
    ELSE IF EffectDrops(req) THEN [store |-> clearFlyToRequest(s), move |-> Null]
    ELSE [store |-> clearFlyToRequest(s), move |-> CameraMove(req)]

\* the dependency array [flyToRequest, clearFlyToRequest]: the effect is
\* scheduled by a commit whose flyToRequest differs from the previous commit's
DepsChanged(prev, cur) == prev # cur

(***************************************************************************)
(* useMapChatTools: navigate_map                                           *)
(***************************************************************************)
navigateMap(s, longitude, latitude, zoom) == flyTo(s, longitude, latitude, zoom)

(***************************************************************************)
(* useMapChatTools: show_on_map                                            *)
(* A locations item is a record: falsy (the item is null), bbox (a tuple,  *)
(* <<>> when the field is missing, entries already through Number()),      *)
(* longitude, latitude, center (Absent where a field is missing), label,   *)
(* hasMetrics (metrics or properties has a key).                           *)
(***************************************************************************)
LocBox(loc) ==
    IF Len(loc.bbox) = 4 /\ \A k \in 1..4 : loc.bbox[k] # NaN
    THEN loc.bbox ELSE <<>>

\* LocPoint that looks at the nested center before the direct fields
LocPoint_centerFirst(loc) ==
    IF LocBox(loc) # <<>> THEN Null
    ELSE IF loc.center.longitude # Absent /\ loc.center.latitude # Absent
    THEN LngLat(loc.center.longitude, loc.center.latitude)
    ELSE IF loc.longitude # Absent /\ loc.latitude # Absent
    THEN LngLat(loc.longitude, loc.latitude)
    ELSE Null

LocPoint(loc) ==
    IF LocBox(loc) # <<>> THEN Null
    ELSE IF loc.longitude # Absent /\ loc.latitude # Absent
    THEN LngLat(loc.longitude, loc.latitude)
    ELSE IF loc.center.longitude # Absent /\ loc.center.latitude # Absent
    THEN LngLat(loc.center.longitude, loc.center.latitude)
    ELSE Null

PointIsNumeric(pt) == pt # Null /\ pt.lng # NaN /\ pt.lat # NaN

EmptyFrame ==
    [highlights |-> <<>>, minLng |-> 180000, maxLng |-> -180000,
     minLat |-> 90000, maxLat |-> -90000, count |-> 0, sidebarData |-> <<>>]

\* one turn of locations.forEach
ProjectOne(acc, loc, i) ==
    IF loc.falsy THEN acc
    ELSE
    LET box == LocBox(loc)
        point == LocPoint(loc)
        framed ==
            IF box # <<>>
            THEN [acc EXCEPT
                    !.highlights = Append(@, [type |-> "bbox", bbox |-> box]),
                    !.minLng = Min(@, box[1]), !.minLat = Min(@, box[2]),
                    !.maxLng = Max(@, box[3]), !.maxLat = Max(@, box[4]),
                    !.count = @ + 1]
            ELSE IF PointIsNumeric(point)
            THEN [acc EXCEPT
                    !.highlights = Append(@, Point(point.lng, point.lat)),
                    !.minLng = Min(@, point.lng), !.minLat = Min(@, point.lat),
                    !.maxLng = Max(@, point.lng), !.maxLat = Max(@, point.lat),
                    !.count = @ + 1]
            ELSE acc
    IN  IF box # <<>> \/ point # Null
        THEN [framed EXCEPT
                !.sidebarData = Append(@, [id |-> i - 1, label |-> loc.label,
                                           hasMetrics |-> loc.hasMetrics])]
        ELSE framed

RECURSIVE ProjectFrom(_, _, _)
ProjectFrom(acc, locations, i) ==
    IF i > Len(locations) THEN acc
    ELSE ProjectFrom(ProjectOne(acc, locations[i], i), locations, i + 1)

Project(locations) == ProjectFrom(EmptyFrame, locations, 1)

\* TargetZoom whose first tier takes a spread of exactly 0.05 as well
TargetZoom_inclusive(count, spread, zoom) ==
    IF count = 1 THEN (IF zoom # Absent THEN zoom ELSE 13)
    ELSE IF spread <= 50 THEN 13
    ELSE IF spread < 100 THEN 12
    ELSE 11

TargetZoom(count, spread, zoom) ==
    IF count = 1 THEN (IF zoom # Absent THEN zoom ELSE 13)
    ELSE IF spread < 50 THEN 13
    ELSE IF spread < 100 THEN 12
    ELSE 11

OrElse(zoom, dflt) == IF zoom # Absent THEN zoom ELSE dflt

\* the locations branch without its count > 0 test before flyTo
showOnMapLocations_alwaysFlies(s, a) ==
    LET f == Project(a.locations)
        s1 == setSelectedRegion(
                  setSelectedPoint(setHighlightedLocations(s, f.highlights), Null),
                  Null)
        hasMetrics == \E k \in 1..Len(f.sidebarData) : f.sidebarData[k].hasMetrics
        s2 == IF hasMetrics
              THEN openLeftSidebar(
                       setLeftSidebarContent(s1, Content("SelectedLocations"), TRUE))
              ELSE s1
        spread == Max(f.maxLng - f.minLng, f.maxLat - f.minLat)
    IN  flyTo(s2, (f.minLng + f.maxLng) \div 2, (f.minLat + f.maxLat) \div 2,
              TargetZoom(f.count, spread, a.zoom))

\* the locations branch that lays the first two highlights the other way round
showOnMapLocations_swapped(s, a) ==
    LET f == Project(a.locations)
        h == IF Len(f.highlights) >= 2
             THEN <<f.highlights[2], f.highlights[1]>> \o SubSeq(f.highlights, 3, Len(f.highlights))
             ELSE f.highlights
        s1 == setSelectedRegion(
                  setSelectedPoint(setHighlightedLocations(s, h), Null),
                  Null)
        spread == Max(f.maxLng - f.minLng, f.maxLat - f.minLat)
    IN  IF f.count > 0
        THEN flyTo(s1, (f.minLng + f.maxLng) \div 2, (f.minLat + f.maxLat) \div 2,
                   TargetZoom(f.count, spread, a.zoom))
        ELSE s1

showOnMapLocations(s, a) ==
    LET f == Project(a.locations)
        s1 == setSelectedRegion(
                  setSelectedPoint(setHighlightedLocations(s, f.highlights), Null),
                  Null)
        hasMetrics == \E k \in 1..Len(f.sidebarData) : f.sidebarData[k].hasMetrics
        s2 == IF hasMetrics
              THEN openLeftSidebar(
                       setLeftSidebarContent(s1, Content("SelectedLocations"), TRUE))
              ELSE s1
        spread == Max(f.maxLng - f.minLng, f.maxLat - f.minLat)
    IN  IF f.count > 0
        THEN flyTo(s2, (f.minLng + f.maxLng) \div 2, (f.minLat + f.maxLat) \div 2,
                   TargetZoom(f.count, spread, a.zoom))
        ELSE s2

\* the bbox branch that also switches the selection mode to region
showOnMapBbox_regionMode(s, a) ==
    LET s1 == setSelectedPoint(
                  setSelectedRegion(setHighlightedLocations(s, <<>>),
                                    BboxRegion(a.bbox)),
                  Null)
    IN  setSelectionMode(
            flyTo(s1, (a.bbox[1] + a.bbox[3]) \div 2, (a.bbox[2] + a.bbox[4]) \div 2,
                  OrElse(a.zoom, 12)),
            "region")

showOnMapBbox(s, a) ==
    LET s1 == setSelectedPoint(
                  setSelectedRegion(setHighlightedLocations(s, <<>>),
                                    BboxRegion(a.bbox)),
                  Null)
    IN  flyTo(s1, (a.bbox[1] + a.bbox[3]) \div 2, (a.bbox[2] + a.bbox[4]) \div 2,
              OrElse(a.zoom, 12))

showOnMapPoint(s, a) ==
    LET s1 == setSelectedRegion(
                  setSelectedPoint(setHighlightedLocations(s, <<>>),
                                   LngLat(a.longitude, a.latitude)),
                  Null)
    IN  flyTo(s1, a.longitude, a.latitude, OrElse(a.zoom, 14))

\* show_on_map that looks at bbox and coordinates before locations
ShowOnMapBranch_locationsLast(a) ==
    IF Len(a.bbox) = 4 THEN "bbox"
    ELSE IF a.longitude # Absent /\ a.latitude # Absent THEN "point"
    ELSE IF Len(a.locations) > 0 THEN "locations"
    ELSE "error"

ShowOnMapBranch(a) ==
    IF Len(a.locations) > 0 THEN "locations"
    ELSE IF Len(a.bbox) = 4 THEN "bbox"
    ELSE IF a.longitude # Absent /\ a.latitude # Absent THEN "point"
    ELSE "error"

\* show_on_map that empties the highlights before it reports the error
showOnMap_clearsOnError(s, a) ==
    CASE ShowOnMapBranch(a) = "locations" -> showOnMapLocations(s, a)
      [] ShowOnMapBranch(a) = "bbox" -> showOnMapBbox(s, a)
      [] ShowOnMapBranch(a) = "point" -> showOnMapPoint(s, a)
      [] OTHER -> setHighlightedLocations(s, <<>>)

showOnMap(s, a) ==
    CASE ShowOnMapBranch(a) = "locations" -> showOnMapLocations(s, a)
      [] ShowOnMapBranch(a) = "bbox" -> showOnMapBbox(s, a)
      [] ShowOnMapBranch(a) = "point" -> showOnMapPoint(s, a)
      [] OTHER -> s

showOnMapResult(a) ==
    IF ShowOnMapBranch(a) = "error"
    THEN [success |-> FALSE, error |-> "Provide locations array, or (longitude, latitude), or bbox."]
    ELSE [success |-> TRUE]

(***************************************************************************)
(* useMapChatTools: search_places                                          *)
(* A geocoder response is ok (the fetch resolved) with its features, each  *)
(* a center, a place type and a relevance in hundredths.                   *)
(***************************************************************************)
IsPoiMatch(f) == f.place_type \in {"poi", "landmark"} /\ f.relevance > 80

BestFeature(features) ==
    IF \E k \in 1..Len(features) : IsPoiMatch(features[k])
    THEN features[CHOOSE k \in 1..Len(features) :
                      /\ IsPoiMatch(features[k])
                      /\ \A j \in 1..(k - 1) : ~IsPoiMatch(features[j])]
    ELSE features[1]

searchPlacesFound(resp) == resp.ok /\ Len(resp.features) > 0

\* search_places without its setSelectedRegion(null)
searchPlaces_keepsRegion(s, resp) ==
    IF searchPlacesFound(resp)
    THEN LET c == BestFeature(resp.features).center
         IN  setSelectedPoint(flyTo(s, c[1], c[2], 14), LngLat(c[1], c[2]))
    ELSE s

searchPlaces(s, resp) ==
    IF searchPlacesFound(resp)
    THEN LET c == BestFeature(resp.features).center
         IN  setSelectedRegion(
                 setSelectedPoint(flyTo(s, c[1], c[2], 14), LngLat(c[1], c[2])),
                 Null)
    ELSE s

searchPlacesResult(resp) ==
    IF ~resp.ok THEN [error |-> "Geocoding failed"]
    ELSE IF Len(resp.features) = 0
    THEN [found |-> FALSE, message |-> "Place not found in San Francisco."]
    ELSE [found |-> TRUE, coordinates |-> BestFeature(resp.features).center]

(***************************************************************************)
(* useMapChatTools: the operations that await the insight data service     *)
(* A fetch ends in one of two ways: it is rejected (the transport failed,  *)
(* or the body is not JSON and res.json() rejected), or it yields the      *)
(* parsed body, whatever the HTTP status was.  An async tool whose await   *)
(* is rejected outside a try block ends by throwing.  A body is the record *)
(* of the fields the tools read: status, properties, feature, aggregates,  *)
(* trend ("none" when missing, "empty" when without values, else "some"),  *)
(* results and comparison.                                                 *)
(***************************************************************************)
\* an omitted feature_id
NoId == "<undefined>"

Rejected == [kind |-> "rejected"]

Thrown == [thrown |-> TRUE]

SoftError(message) == [thrown |-> FALSE, error |-> message]

\* get_insight_at_point that falls back to the centre of the viewport
getInsightAtPointTarget_viewport(s, a) ==
    IF a.longitude = Absent \/ a.latitude = Absent
    THEN [longitude |-> s.viewport.longitude, latitude |-> s.viewport.latitude]
    ELSE [longitude |-> a.longitude, latitude |-> a.latitude]

\* get_insight_at_point: the resolution step, a request or a soft error
getInsightAtPointTarget(s, a) ==
    IF a.longitude = Absent \/ a.latitude = Absent
    THEN IF s.selectedPoint = Null
         THEN SoftError("No point selected on the map. Ask the user to click a location first, or provide longitude and latitude.")
         ELSE [longitude |-> s.selectedPoint.lng, latitude |-> s.selectedPoint.lat]
    ELSE [longitude |-> a.longitude, latitude |-> a.latitude]

PointInsightWrites(data) ==
    /\ data.kind = "json"
    /\ data.status = "success"
    /\ data.properties # "none"
    /\ data.properties = "some"

\* get_insight_at_point that sets the content and leaves the panel as it is
getInsightAtPoint_noOpen(s, req, data) ==
    IF PointInsightWrites(data)
    THEN setLeftSidebarContent(
             s, KeyedContent("Location Metrics", <<req.longitude, req.latitude>>), TRUE)
    ELSE s

\* get_insight_at_point whose key is made of the selection at the time the
\* fetch resolves
getInsightAtPoint_revalidates(s, req, data) ==
    IF PointInsightWrites(data)
    THEN openLeftSidebar(
             setLeftSidebarContent(
                 s, KeyedContent("Location Metrics",
                                 IF s.selectedPoint # Null
                                 THEN <<s.selectedPoint.lng, s.selectedPoint.lat>>
                                 ELSE <<req.longitude, req.latitude>>), TRUE))
    ELSE s

\* get_insight_at_point: the continuation of the fetch
getInsightAtPoint(s, req, data) ==
    IF PointInsightWrites(data)
    THEN openLeftSidebar(
             setLeftSidebarContent(
                 s, KeyedContent("Location Metrics", <<req.longitude, req.latitude>>),
                 TRUE))
    ELSE s

\* what an operation that returns the body of its fetch hands to the agent
FetchResult(data) ==
    IF data.kind = "rejected" THEN Thrown ELSE [thrown |-> FALSE, data |-> data]

\* the bbox of 0.003 degree around a point
AroundPoint(p) == <<p.lng - 3, p.lat - 3, p.lng + 3, p.lat + 3>>

\* get_insight_for_region that prefers the selection to its arguments
getInsightForRegionTarget_selectionFirst(s, a) ==
    IF s.selectedRegion # Null /\ s.selectedRegion.type = "bbox"
    THEN [bbox |-> s.selectedRegion.bbox, feature_id |-> NoId]
    ELSE IF s.selectedPoint # Null
    THEN [bbox |-> AroundPoint(s.selectedPoint), feature_id |-> NoId]
    ELSE IF a.bbox # <<>> \/ a.feature_id # NoId
    THEN [bbox |-> a.bbox, feature_id |-> a.feature_id]
    ELSE SoftError("No region or point selected. Ask the user to click a point or draw a region on the map, or provide bbox or feature_id.")

\* get_insight_for_region: the resolution step; an omitted bbox is <<>>
getInsightForRegionTarget(s, a) ==
    LET none1 == a.bbox = <<>> /\ a.feature_id = NoId
        useBbox1 == IF none1 /\ s.selectedRegion # Null /\ s.selectedRegion.type = "bbox"
                    THEN s.selectedRegion.bbox ELSE a.bbox
        useFeatureId == IF none1 /\ s.selectedRegion # Null /\ s.selectedRegion.type # "bbox"
                        THEN s.selectedRegion.id ELSE a.feature_id
        none2 == useBbox1 = <<>> /\ useFeatureId = NoId
        useBbox == IF none2 /\ s.selectedPoint # Null
                   THEN AroundPoint(s.selectedPoint) ELSE useBbox1
    IN  IF useBbox = <<>> /\ useFeatureId = NoId
        THEN SoftError("No region or point selected. Ask the user to click a point or draw a region on the map, or provide bbox or feature_id.")
        ELSE [bbox |-> useBbox, feature_id |-> useFeatureId]

\* get_insight_for_region: the continuation of the fetch
getInsightForRegion(s, data) ==
    IF /\ data.kind = "json"
       /\ data.status = "success"
       /\ IF data.feature # "none" THEN data.feature = "some"
          ELSE data.aggregates = "some"
    THEN openLeftSidebar(setLeftSidebarContent(s, Content("Region Metrics"), TRUE))
    ELSE s

\* analyze_temporal_trends: the resolution step; with no point and a region of
\* type featureId the tool goes on with the location it was given, none
analyzeTemporalTrendsTarget(s, a) ==
    IF a.longitude = Absent /\ a.latitude = Absent /\ a.feature_id = NoId
    THEN IF s.selectedPoint # Null
         THEN [longitude |-> s.selectedPoint.lng, latitude |-> s.selectedPoint.lat,
               feature_id |-> NoId]
         ELSE IF s.selectedRegion # Null /\ s.selectedRegion.type = "featureId"
         THEN [longitude |-> Absent, latitude |-> Absent, feature_id |-> NoId]
         ELSE SoftError("No location selected.")
    ELSE [longitude |-> a.longitude, latitude |-> a.latitude,
          feature_id |-> a.feature_id]

\* analyze_temporal_trends: what it returns once the fetch ended
analyzeTemporalTrendsResult(data) ==
    IF data.kind = "rejected" THEN Thrown
    ELSE IF data.trend # "none"
    THEN [thrown |-> FALSE, trend |-> data.trend, title |-> "Trend Over Time"]
    ELSE [thrown |-> FALSE, data |-> data]

\* analyze_proximity that searches around the centre of the viewport when
\* nothing is selected
analyzeProximityTarget_viewport(s, a) ==
    IF a.longitude = Absent \/ a.latitude = Absent
    THEN IF s.selectedPoint = Null
         THEN [longitude |-> s.viewport.longitude, latitude |-> s.viewport.latitude,
               radius_meters |-> a.radius_meters]
         ELSE [longitude |-> s.selectedPoint.lng, latitude |-> s.selectedPoint.lat,
               radius_meters |-> a.radius_meters]
    ELSE a

\* analyze_proximity: the centre of the search, or a soft error
analyzeProximityTarget(s, a) ==
    IF a.longitude = Absent \/ a.latitude = Absent
    THEN IF s.selectedPoint = Null
         THEN SoftError("No point selected. Provide location or select a point.")
         ELSE [longitude |-> s.selectedPoint.lng, latitude |-> s.selectedPoint.lat,
               radius_meters |-> a.radius_meters]
    ELSE a

\* get_place_name: the point to look up, or the error it returns before any
\* request (nothing selected, or no Mapbox token in the build)
getPlaceNameTarget(s, a, mapboxToken) ==
    IF (a.longitude = Absent \/ a.latitude = Absent) /\ s.selectedPoint = Null
    THEN SoftError("No point selected. Click a location on the map first, or provide longitude and latitude.")
    ELSE IF ~mapboxToken
    THEN [thrown |-> FALSE, status |-> "error",
          error |-> "Mapbox token missing. Set NEXT_PUBLIC_MAPBOX_TOKEN for reverse geocoding.",
          display_name |-> Null]
    ELSE IF a.longitude = Absent \/ a.latitude = Absent
    THEN [longitude |-> s.selectedPoint.lng, latitude |-> s.selectedPoint.lat]
    ELSE a

\* get_place_name: what it returns once the geocoder has answered or failed
getPlaceNameResult(resp) ==
    IF ~resp.ok THEN [thrown |-> FALSE, status |-> "error", display_name |-> Null]
    ELSE IF Len(resp.features) = 0
    THEN [thrown |-> FALSE, status |-> "not_found", display_name |-> Null]
    ELSE [thrown |-> FALSE, status |-> "success",
          display_name |-> resp.features[1].center]

(***************************************************************************)
(* useMapChatTools: compare_locations                                      *)
(* A target is an object, or a string taken by its shorthand: "selected",  *)
(* "point:" with the numbers parseFloat made of its comma-separated parts, *)
(* "feature:" with an id, or a place name.  The run of the tool between    *)
(* two awaits is one step; what it has done so far is in the record of the *)
(* call: the targets left, finalTargets, and the selectedPoint its closure *)
(* holds.                                                                  *)
(***************************************************************************)
AtPoint(p) == [longitude |-> p.lng, latitude |-> p.lat]

\* what a target that needs no geocoding adds to finalTargets
CompareTarget(t, closurePoint) ==
    CASE t.kind = "selected" ->
             IF closurePoint # Null THEN <<AtPoint(closurePoint)>> ELSE <<>>
      [] t.kind = "point" ->
             IF Len(t.parts) = 2 /\ t.parts[1] # NaN /\ t.parts[2] # NaN
             THEN <<[longitude |-> t.parts[1], latitude |-> t.parts[2]]>>
             ELSE <<>>
      [] t.kind = "feature" -> <<[feature_id |-> t.id]>>
      [] t.kind = "object" -> <<t.value>>
      [] OTHER -> <<>>

\* the loop over rawTargets, up to its next await (the geocoding of a place
\* name, when there is a token) or its end
RECURSIVE CompareLoop(_)
CompareLoop(c) ==
    IF c.rest = <<>> \/ (Head(c.rest).kind = "place" /\ c.mapboxToken) THEN c
    ELSE CompareLoop([c EXCEPT
                        !.rest = Tail(c.rest),
                        !.finalTargets =
                            c.finalTargets \o CompareTarget(Head(c.rest), c.selectedPoint)])

\* compare_locations that gives up on the first place that is not found
CompareGeocoded_aborts(c, resp) ==
    IF resp.ok /\ Len(resp.features) > 0
    THEN [c EXCEPT
            !.rest = Tail(c.rest),
            !.finalTargets =
                Append(c.finalTargets,
                       [longitude |-> resp.features[1].center[1],
                        latitude |-> resp.features[1].center[2]])]
    ELSE [c EXCEPT !.rest = <<>>, !.finalTargets = <<>>]

\* the geocoding fetch of the first target left has ended
CompareGeocoded(c, resp) ==
    [c EXCEPT
       !.rest = Tail(c.rest),
       !.finalTargets =
           IF resp.ok /\ Len(resp.features) > 0
           THEN Append(c.finalTargets,
                       [longitude |-> resp.features[1].center[1],
                        latitude |-> resp.features[1].center[2]])
           ELSE c.finalTargets]

NoLocations ==
    SoftError("No valid locations to compare. Pass place names (e.g. 'Sunset District', 'Glen Park') in targets, click a point on the map and use 'selected', or provide coordinates as 'point:lng,lat'.")

\* the check of finalTargets and the comparison fetch
CompareRequest(c) ==
    IF c.finalTargets = <<>> THEN NoLocations
    ELSE [c EXCEPT !.stage = "compare"]

\* compare_locations that fetches the comparison of an empty list
CompareAfterLoop_fetchesEmpty(c) ==
    [c EXCEPT !.stage = IF c.add_extreme # Null THEN "extreme" ELSE "compare"]

\* compare_locations that adds the selected point whatever the loop resolved
CompareAfterLoop_alwaysAdds(c) ==
    LET c1 == IF c.selectedPoint # Null
              THEN [c EXCEPT !.finalTargets = Append(@, AtPoint(c.selectedPoint))]
              ELSE c
    IN  IF c1.add_extreme # Null THEN [c1 EXCEPT !.stage = "extreme"]
        ELSE CompareRequest(c1)

\* after the loop: the fallback target, then add_extreme or the comparison
CompareAfterLoop(c) ==
    LET c1 == IF c.finalTargets = <<>> /\ c.selectedPoint # Null
              THEN [c EXCEPT !.finalTargets = <<AtPoint(c.selectedPoint)>>]
              ELSE c
    IN  IF c1.add_extreme # Null THEN [c1 EXCEPT !.stage = "extreme"]
        ELSE CompareRequest(c1)

\* the tool from the loop on: the call record at its next await, or a result
CompareAdvance(c) ==
    LET c1 == CompareLoop(c)
    IN  IF c1.rest # <<>> THEN c1 ELSE CompareAfterLoop(c1)

\* what the results of find_extreme add to finalTargets
RECURSIVE ExtremeTargets(_, _)
ExtremeTargets(arr, n) ==
    IF n = 0 \/ arr = <<>> THEN <<>>
    ELSE LET r == Head(arr)
             t == IF r.center.longitude # Absent /\ r.center.latitude # Absent
                  THEN <<[longitude |-> r.center.longitude,
                          latitude |-> r.center.latitude]>>
                  ELSE IF Len(r.bbox) >= 4
                  THEN <<[longitude |-> (r.bbox[1] + r.bbox[3]) \div 2,
                          latitude |-> (r.bbox[2] + r.bbox[4]) \div 2]>>
                  ELSE <<>>
         IN  t \o ExtremeTargets(Tail(arr), n - 1)

\* the find_extreme fetch of add_extreme has ended
CompareExtreme(c, resp) ==
    IF resp.kind = "rejected" THEN Thrown
    ELSE CompareRequest(
             [c EXCEPT !.finalTargets =
                 c.finalTargets \o ExtremeTargets(resp.results, c.add_extreme.top_n)])

\* the entries of a comparison that carry metrics
RECURSIVE SafeIds(_)
SafeIds(comparison) ==
    IF comparison = <<>> THEN <<>>
    ELSE (IF Head(comparison).metrics THEN <<Head(comparison).id>> ELSE <<>>)
             \o SafeIds(Tail(comparison))

\* compare_locations that writes the panel with keepAlt, as the other tools do
compareLocations_keepsAlt(s, resp) ==
    IF resp.kind = "json" /\ SafeIds(resp.comparison) # <<>>
    THEN openLeftSidebar(
             setLeftSidebarContent(
                 s, KeyedContent("Location Comparison", SafeIds(resp.comparison)),
                 TRUE))
    ELSE s

\* compare_locations: the continuation of the comparison fetch
compareLocations(s, resp) ==
    IF resp.kind = "json" /\ SafeIds(resp.comparison) # <<>>
    THEN openLeftSidebar(
             setLeftSidebarContent(
                 s, KeyedContent("Location Comparison", SafeIds(resp.comparison)),
                 FALSE))
    ELSE s

(***************************************************************************)
(* Inputs                                                                  *)
(***************************************************************************)
\* where the user clicks: two opposite corners, and a third that is east of the
\* first and south of it
ClickPoints == {<<-122450, 37770>>, <<-122400, 37800>>, <<-122420, 37760>>}

\* view states the map reports while the user pans
MoveViews == {[longitude |-> -122430, latitude |-> 37760, zoom |-> 12]}

NavigateArgs ==
    {[longitude |-> -122420, latitude |-> 37774, zoom |-> Absent],
     [longitude |-> 200000, latitude |-> -95000, zoom |-> 18]}

NoCenter == [longitude |-> Absent, latitude |-> Absent]

Loc == [falsy |-> FALSE, bbox |-> <<>>, longitude |-> Absent, latitude |-> Absent,
        center |-> NoCenter, label |-> "", hasMetrics |-> FALSE]

BboxLoc(b) == [Loc EXCEPT !.bbox = b]

PointLoc(lng, lat) == [Loc EXCEPT !.longitude = lng, !.latitude = lat]

CenterLoc(lng, lat) ==
    [Loc EXCEPT !.center = [longitude |-> lng, latitude |-> lat], !.hasMetrics = TRUE]

NoArgs == [longitude |-> Absent, latitude |-> Absent, bbox |-> <<>>,
           zoom |-> Absent, locations |-> <<>>]

ShowOnMapArgs ==
    {[NoArgs EXCEPT !.locations = <<BboxLoc(<<-122460, 37700, -122450, 37710>>),
                                    PointLoc(-122440, 37750)>>],
     [NoArgs EXCEPT !.locations = <<Loc, [Loc EXCEPT !.falsy = TRUE]>>,
                    !.bbox = <<-122460, 37700, -122450, 37710>>],
     [NoArgs EXCEPT !.locations = <<CenterLoc(-122480, 37760)>>],
     [NoArgs EXCEPT !.bbox = <<-122460, 37700, -122450, 37710>>],
     [NoArgs EXCEPT !.bbox = <<-122450, 37710, -122460, 37700>>, !.zoom = 15],
     [NoArgs EXCEPT !.longitude = -122440, !.latitude = 37750],
     NoArgs}

Feature(lng, lat, place_type, relevance) ==
    [center |-> <<lng, lat>>, place_type |-> place_type, relevance |-> relevance]

GeocodeResponses ==
    {[ok |-> FALSE, features |-> <<>>],
     [ok |-> TRUE, features |-> <<>>],
     [ok |-> TRUE, features |-> <<Feature(-122478, 37820, "address", 90),
                                  Feature(-122394, 37796, "poi", 95)>>]}

(***************************************************************************)
(* The application: user, agent runtime and renderer                       *)
(***************************************************************************)
Init ==
    /\ StoreIs(defaultState)
    /\ mapReady = FALSE
    /\ effectDeps = Null
    /\ effectQueued = FALSE
    /\ applied = <<>>
    /\ pending = Null
    /\ toolResult = Null

\* the map instance becomes available (mapRef.current is set)
MapLoad ==
    /\ ~mapReady
    /\ mapReady' = TRUE
    /\ UNCHANGED <<effectDeps, effectQueued, applied, pending, toolResult>>
    /\ Commit(Store)

\* MapComponent commits a render; its fly-to effect is scheduled when the
\* dependency changed
MapRender ==
    /\ ~effectQueued
    /\ DepsChanged(effectDeps, flyToRequest)
    /\ effectDeps' = flyToRequest
    /\ effectQueued' = TRUE
    /\ UNCHANGED <<mapReady, applied, pending, toolResult>>
    /\ Commit(Store)

FlyToEffect ==
    /\ effectQueued
    /\ LET r == flyToEffect(Store, effectDeps, mapReady)
       IN  /\ Commit(r.store)
           /\ applied' = IF r.move # Null
                         THEN Append(applied, [id |-> effectDeps.id, move |-> r.move])
                         ELSE applied
    /\ effectQueued' = FALSE
    /\ UNCHANGED <<mapReady, effectDeps, pending, toolResult>>

MapClick(lng, lat) ==
    /\ Commit(onClick(Store, lng, lat))
    /\ UNCHANGED <<renderVars, pending, toolResult>>

PointButton ==
    /\ Commit(onClickPointButton(Store))
    /\ UNCHANGED <<renderVars, pending, toolResult>>

RegionButton ==
    /\ Commit(onClickRegionButton(Store))
    /\ UNCHANGED <<renderVars, pending, toolResult>>

MapMove(v) ==
    /\ mapReady
    /\ viewport # v
    /\ Commit(onMove(Store, v))
    /\ UNCHANGED <<renderVars, pending, toolResult>>

\* the agent runtime runs one operation at a time; flyTo calls are bounded
AgentIdle == pending = Null /\ nextReqId <= MaxFlyTo

NavigateMap(a) ==
    /\ AgentIdle
    /\ Commit(navigateMap(Store, a.longitude, a.latitude, a.zoom))
    /\ toolResult' = [success |-> TRUE]
    /\ UNCHANGED <<renderVars, pending>>

ShowOnMap(a) ==
    /\ AgentIdle
    /\ Commit(showOnMap(Store, a))
    /\ toolResult' = showOnMapResult(a)
    /\ UNCHANGED <<renderVars, pending>>

SearchPlacesCall ==
    /\ AgentIdle
    /\ pending' = [op |-> "search_places"]
    /\ UNCHANGED <<renderVars, toolResult>>
    /\ Commit(Store)

SearchPlacesResolve(resp) ==
    /\ pending = [op |-> "search_places"]
    /\ Commit(searchPlaces(Store, resp))
    /\ pending' = Null
    /\ toolResult' = searchPlacesResult(resp)
    /\ UNCHANGED renderVars

Next ==
    \/ MapLoad
    \/ MapRender
    \/ FlyToEffect
    \/ \E c \in ClickPoints : MapClick(c[1], c[2])
    \/ PointButton
    \/ RegionButton
    \/ \E v \in MoveViews : MapMove(v)
    \/ \E a \in NavigateArgs : NavigateMap(a)
    \/ \E a \in ShowOnMapArgs : ShowOnMap(a)
    \/ SearchPlacesCall
    \/ \E resp \in GeocodeResponses : SearchPlacesResolve(resp)

Spec == Init /\ [][Next]_vars

\* the user and the agent acting between two renders of MapComponent: the
\* fly-to effect has not run, so requests stay in FlyToRequest
NextSession ==
    \/ MapLoad
    \/ \E c \in ClickPoints : MapClick(c[1], c[2])
    \/ PointButton
    \/ RegionButton
    \/ \E v \in MoveViews : MapMove(v)
    \/ \E a \in NavigateArgs : NavigateMap(a)
    \/ \E a \in ShowOnMapArgs : ShowOnMap(a)
    \/ SearchPlacesCall
    \/ \E resp \in GeocodeResponses : SearchPlacesResolve(resp)

SpecSession == Init /\ [][NextSession]_vars

(***************************************************************************)
(* The context value of MapChatProvider, called directly: one action per   *)
(* function the provider hands out, each a single call                     *)
(***************************************************************************)
ApiPoints == {Null, LngLat(-122450, 37770), LngLat(-122400, 37800)}

ApiRegions ==
    {Null, BboxRegion(<<-122450, 37770, -122400, 37800>>),
     [type |-> "featureId", id |-> "cell-1"]}

FlyToArgs ==
    {[longitude |-> -122420, latitude |-> 37774, zoom |-> 14],
     [longitude |-> -122420, latitude |-> 37774, zoom |-> Absent],
     [longitude |-> -122480, latitude |-> 37760, zoom |-> 9],
     [longitude |-> 200000, latitude |-> -95000, zoom |-> 25],
     [longitude |-> NaN, latitude |-> 37774, zoom |-> 14],
     [longitude |-> -122420, latitude |-> NaN, zoom |-> Absent]}

ApiUnchanged == UNCHANGED <<renderVars, pending, toolResult>>

ApiSetViewport(v) == viewport # v /\ Commit(setViewport(Store, v)) /\ ApiUnchanged

ApiSetSelectedPoint(p) == Commit(setSelectedPoint(Store, p)) /\ ApiUnchanged

ApiSetSelectedRegion(r) == Commit(setSelectedRegion(Store, r)) /\ ApiUnchanged

ApiSetBboxCorner1(p) == Commit(setBboxCorner1(Store, p)) /\ ApiUnchanged

ApiSetSelectionMode(m) == Commit(setSelectionMode(Store, m)) /\ ApiUnchanged

ApiFlyTo(a) ==
    /\ nextReqId <= MaxFlyTo
    /\ Commit(flyTo(Store, a.longitude, a.latitude, a.zoom))
    /\ ApiUnchanged

ApiClearFlyToRequest == Commit(clearFlyToRequest(Store)) /\ ApiUnchanged

NextApi ==
    \/ \E v \in MoveViews : ApiSetViewport(v)
    \/ \E p \in ApiPoints : ApiSetSelectedPoint(p)
    \/ \E r \in ApiRegions : ApiSetSelectedRegion(r)
    \/ \E p \in ApiPoints : ApiSetBboxCorner1(p)
    \/ \E m \in {"point", "region"} : ApiSetSelectionMode(m)
    \/ \E a \in FlyToArgs : ApiFlyTo(a)
    \/ ApiClearFlyToRequest

SpecApi == Init /\ [][NextApi]_vars

(***************************************************************************)
(* show_on_map on its own: one call with a locations list is in flight,    *)
(* over a fresh session or over one with a selection and a pending         *)
(* request, and the tool runs                                              *)
(***************************************************************************)
\* bound on the length of a locations list
MaxLocs == 2

\* a bbox; a point; a find_extreme result; null; an empty object; an
\* unparsable bbox beside direct fields; a labelled item with bbox, direct
\* fields and center; direct fields beside a center; an unparsable longitude
\* beside a center; an unparsable bbox beside an unparsable longitude
ProjItems ==
    {BboxLoc(<<-122460, 37700, -122450, 37710>>),
     PointLoc(-122440, 37750),
     CenterLoc(-122480, 37760),
     [Loc EXCEPT !.falsy = TRUE],
     Loc,
     [Loc EXCEPT !.bbox = <<-122460, NaN, -122450, 37710>>,
                 !.longitude = -122392, !.latitude = 37752],
     [Loc EXCEPT !.bbox = <<-122520, 37700, -122500, 37720>>,
                 !.longitude = -122300, !.latitude = 37900,
                 !.center = [longitude |-> -122000, latitude |-> 37000],
                 !.label = "Best"],
     [Loc EXCEPT !.longitude = -122340, !.latitude = 37750,
                 !.center = [longitude |-> -122000, latitude |-> 37000]],
     [Loc EXCEPT !.longitude = NaN, !.latitude = 37750,
                 !.center = [longitude |-> -122480, latitude |-> 37760]],
     [Loc EXCEPT !.bbox = <<NaN, 37700, -122450, 37710>>,
                 !.longitude = NaN, !.latitude = 37750]}

ProjLists == UNION {[1..n -> ProjItems] : n \in 1..MaxLocs}

ProjZooms == {Absent, 15}

ProjectorArgs ==
    {[NoArgs EXCEPT !.locations = l, !.zoom = z] : l \in ProjLists, z \in ProjZooms}

\* the session before the call: fresh, or after a click and a navigate_map
ProjStores ==
    {defaultState,
     navigateMap(onClick(defaultState, -122450, 37770), -122420, 37774, Absent)}

InitShow ==
    /\ \E s \in ProjStores : StoreIs(s)
    /\ mapReady = FALSE
    /\ effectDeps = Null
    /\ effectQueued = FALSE
    /\ applied = <<>>
    /\ pending \in {[op |-> "show_on_map", args |-> a] : a \in ProjectorArgs}
    /\ toolResult = Null

ShowOnMapRun ==
    /\ pending # Null
    /\ pending.op = "show_on_map"
    /\ Commit(showOnMap(Store, pending.args))
    /\ toolResult' = showOnMapResult(pending.args)
    /\ pending' = Null
    /\ UNCHANGED renderVars

NextShow == ShowOnMapRun

SpecShow == InitShow /\ [][NextShow]_vars

(***************************************************************************)
(* The dispatch value of LayoutProvider, called directly: one action per   *)
(* function the provider hands out, each a single call.  The content      *)
(* passed is a React element, as at every call site; the same view built  *)
(* at two times is two elements.                                           *)
(***************************************************************************)
\* bound on the number of elements built of one view
MaxKeys == 2

PanelViews ==
    {"Location Metrics", "Region Metrics", "Selected Locations", "Location Comparison"}

PanelContents == {KeyedContent(v, k) : v \in PanelViews, k \in 1..MaxKeys}

PanelUnchanged ==
    UNCHANGED <<viewport, flyToRequest, selectedPoint, selectedRegion, bboxCorner1,
                selectionMode, highlightedLocations, nextReqId, renderVars,
                pending, toolResult>>

PanelCommit(s) ==
    /\ isLeftSidebarOpen' = s.isLeftSidebarOpen
    /\ leftSidebarContent' = s.leftSidebarContent
    /\ leftSidebarAltContent' = s.leftSidebarAltContent

PanelSetContent(content, keepAlt) ==
    PanelCommit(setLeftSidebarContent(Store, content, keepAlt)) /\ PanelUnchanged

PanelToggle == PanelCommit(toggleSidebarView(Store)) /\ PanelUnchanged

PanelOpen == PanelCommit(openLeftSidebar(Store)) /\ PanelUnchanged

PanelClose == PanelCommit(closeLeftSidebar(Store)) /\ PanelUnchanged

NextPanel ==
    \/ \E c \in PanelContents, k \in BOOLEAN : PanelSetContent(c, k)
    \/ PanelToggle
    \/ PanelOpen
    \/ PanelClose

SpecPanel == Init /\ [][NextPanel]_vars

(***************************************************************************)
(* One agent turn against the user: the runtime has invoked one operation, *)
(* which runs from its call to its first await, then from each await to    *)
(* the next; the user clicks the map, switches the mode and closes the     *)
(* panel in between, and a consumer of the context selects a region by id. *)
(***************************************************************************)
\* bound on the number of targets of one compare_locations call
MaxTargets == 2

\* what the data service answers
Bodies ==
    {Rejected,
     [kind |-> "json", status |-> "error", properties |-> "none", feature |-> "none",
      aggregates |-> "none", trend |-> "none", results |-> <<>>, comparison |-> <<>>],
     [kind |-> "json", status |-> "success", properties |-> "some", feature |-> "some",
      aggregates |-> "none", trend |-> "some",
      results |-> <<CenterLoc(-122480, 37760),
                    BboxLoc(<<-122460, 37700, -122450, 37710>>)>>,
      comparison |-> <<[id |-> "a", metrics |-> TRUE], [id |-> "b", metrics |-> FALSE],
                       [id |-> "c", metrics |-> TRUE]>>],
     [kind |-> "json", status |-> "success", properties |-> "empty", feature |-> "none",
      aggregates |-> "some", trend |-> "none", results |-> <<>>,
      comparison |-> <<[id |-> "a", metrics |-> FALSE]>>],
     [kind |-> "json", status |-> "success", properties |-> "some", feature |-> "empty",
      aggregates |-> "some", trend |-> "some", results |-> <<>>,
      comparison |-> <<>>]}

TargetItems ==
    {[kind |-> "selected"],
     [kind |-> "point", parts |-> <<-122440, 37750>>],
     [kind |-> "point", parts |-> <<NaN, 37750>>],
     [kind |-> "feature", id |-> "cell-7"],
     [kind |-> "place", query |-> "Glen Park"],
     [kind |-> "object", value |-> [longitude |-> -122430, latitude |-> 37740]]}

\* the calls the runtime may make, each yet to start
TurnCalls ==
    [op : {"get_insight_at_point"}, stage : {"called"}, request : {Null},
     args : {[longitude |-> Absent, latitude |-> Absent],
             [longitude |-> -122420, latitude |-> Absent],
             [longitude |-> -122420, latitude |-> 37774]}]
      \cup
    [op : {"get_insight_for_region"}, stage : {"called"}, request : {Null},
     args : {[bbox |-> <<>>, feature_id |-> NoId],
             [bbox |-> <<-122460, 37700, -122450, 37710>>, feature_id |-> NoId],
             [bbox |-> <<>>, feature_id |-> "cell-7"]}]
      \cup
    [op : {"find_extreme"}, stage : {"called"}, request : {Null},
     args : {[metric |-> "lst", mode |-> "min", top_n |-> 1],
             [metric |-> "green_score", mode |-> "max", top_n |-> 20]}]
      \cup
    [op : {"analyze_temporal_trends"}, stage : {"called"}, request : {Null},
     args : {[metric |-> "ndvi", longitude |-> Absent, latitude |-> Absent,
              feature_id |-> NoId],
             [metric |-> "ndvi", longitude |-> -122420, latitude |-> 37774,
              feature_id |-> NoId],
             [metric |-> "lst", longitude |-> Absent, latitude |-> Absent,
              feature_id |-> "cell-7"]}]
      \cup
    [op : {"compare_locations"}, stage : {"called"}, mapboxToken : BOOLEAN,
     args : [targets : UNION {[1..n -> TargetItems] : n \in 0..MaxTargets},
             add_extreme : {Null, [metric |-> "lst", mode |-> "min", top_n |-> 1]}]]
      \cup
    [op : {"show_on_map"},
     args : {NoArgs,
             [NoArgs EXCEPT !.longitude = -122440],
             [NoArgs EXCEPT !.latitude = 37750, !.zoom = 15],
             [NoArgs EXCEPT !.locations = <<CenterLoc(-122480, 37760)>>],
             [NoArgs EXCEPT !.bbox = <<-122460, 37700, -122450, 37710>>],
             [NoArgs EXCEPT !.longitude = -122440, !.latitude = 37750],
             [NoArgs EXCEPT !.locations = <<CenterLoc(-122480, 37760)>>,
                            !.bbox = <<-122460, 37700, -122450, 37710>>,
                            !.longitude = -122440, !.latitude = 37750],
             [NoArgs EXCEPT !.locations = <<Loc>>,
                            !.bbox = <<-122460, 37700, -122450, 37710>>,
                            !.longitude = -122440, !.latitude = 37750]}]
      \cup
    [op : {"analyze_proximity"}, stage : {"called"}, request : {Null},
     args : {[longitude |-> Absent, latitude |-> Absent, radius_meters |-> 1000],
             [longitude |-> Absent, latitude |-> 37774, radius_meters |-> 500],
             [longitude |-> -122420, latitude |-> 37774, radius_meters |-> 500]}]
      \cup
    [op : {"get_place_name"}, stage : {"called"}, request : {Null},
     mapboxToken : BOOLEAN,
     args : {[longitude |-> Absent, latitude |-> Absent],
             [longitude |-> -122420, latitude |-> 37774]}]
      \cup
    {[op |-> "search_places"]}

InitTurn ==
    /\ StoreIs(defaultState)
    /\ mapReady = FALSE
    /\ effectDeps = Null
    /\ effectQueued = FALSE
    /\ applied = <<>>
    /\ pending \in TurnCalls
    /\ toolResult = Null

\* the operation in flight is op, at this stage
InFlight(op, stage) ==
    pending # Null /\ pending.op = op /\ pending.stage = stage

\* the tool ran up to an await, or returned, without a store write
ToolGoesOn(r) ==
    /\ IF "thrown" \in DOMAIN r
       THEN pending' = Null /\ toolResult' = r
       ELSE pending' = r /\ toolResult' = toolResult
    /\ Commit(Store)
    /\ UNCHANGED renderVars

\* a tool that opens the panel before it awaits its fetch
ToolFetches_writesFirst(target) ==
    /\ IF "error" \in DOMAIN target
       THEN pending' = Null /\ toolResult' = target
       ELSE /\ pending' = [pending EXCEPT !.stage = "fetch", !.request = target]
            /\ toolResult' = toolResult
    /\ Commit(openLeftSidebar(Store))
    /\ UNCHANGED renderVars

\* the tool resolved its target: a soft error, or the request it now awaits
ToolFetches(target) ==
    ToolGoesOn(IF "error" \in DOMAIN target THEN target
               ELSE [pending EXCEPT !.stage = "fetch", !.request = target])

\* the awaited fetch ended: the rest of the tool runs and returns
ToolReturns(s, result) ==
    /\ Commit(s)
    /\ toolResult' = result
    /\ pending' = Null
    /\ UNCHANGED renderVars

GetInsightAtPointRun ==
    /\ InFlight("get_insight_at_point", "called")
    /\ ToolFetches(getInsightAtPointTarget(Store, pending.args))

GetInsightAtPointResolve(data) ==
    /\ InFlight("get_insight_at_point", "fetch")
    /\ ToolReturns(getInsightAtPoint(Store, pending.request, data), FetchResult(data))

GetInsightForRegionRun ==
    /\ InFlight("get_insight_for_region", "called")
    /\ ToolFetches(getInsightForRegionTarget(Store, pending.args))

GetInsightForRegionResolve(data) ==
    /\ InFlight("get_insight_for_region", "fetch")
    /\ ToolReturns(getInsightForRegion(Store, data), FetchResult(data))

FindExtremeRun ==
    /\ InFlight("find_extreme", "called")
    /\ ToolFetches(pending.args)

FindExtremeResolve(data) ==
    /\ InFlight("find_extreme", "fetch")
    /\ ToolReturns(Store, FetchResult(data))

AnalyzeTemporalTrendsRun ==
    /\ InFlight("analyze_temporal_trends", "called")
    /\ ToolFetches(analyzeTemporalTrendsTarget(Store, pending.args))

AnalyzeTemporalTrendsResolve(data) ==
    /\ InFlight("analyze_temporal_trends", "fetch")
    /\ ToolReturns(Store, analyzeTemporalTrendsResult(data))

AnalyzeProximityRun ==
    /\ InFlight("analyze_proximity", "called")
    /\ ToolFetches(analyzeProximityTarget(Store, pending.args))

AnalyzeProximityResolve(data) ==
    /\ InFlight("analyze_proximity", "fetch")
    /\ ToolReturns(Store, FetchResult(data))

GetPlaceNameRun ==
    /\ InFlight("get_place_name", "called")
    /\ ToolFetches(getPlaceNameTarget(Store, pending.args, pending.mapboxToken))

GetPlaceNameResolve(resp) ==
    /\ InFlight("get_place_name", "fetch")
    /\ ToolReturns(Store, getPlaceNameResult(resp))

\* compare_locations starts: its closure holds the selectedPoint of this render
CompareLocationsRun ==
    /\ InFlight("compare_locations", "called")
    /\ ToolGoesOn(CompareAdvance(
           [op |-> "compare_locations", stage |-> "geocode", args |-> pending.args,
            mapboxToken |-> pending.mapboxToken,
            selectedPoint |-> selectedPoint, rest |-> pending.args.targets,
            finalTargets |-> <<>>, add_extreme |-> pending.args.add_extreme]))

CompareGeocodeResolve(resp) ==
    /\ InFlight("compare_locations", "geocode")
    /\ ToolGoesOn(CompareAdvance(CompareGeocoded(pending, resp)))

CompareExtremeResolve(resp) ==
    /\ InFlight("compare_locations", "extreme")
    /\ ToolGoesOn(CompareExtreme(pending, resp))

CompareLocationsResolve(resp) ==
    /\ InFlight("compare_locations", "compare")
    /\ ToolReturns(compareLocations(Store, resp),
                   IF resp.kind = "rejected" THEN Thrown
                   ELSE [thrown |-> FALSE, data |-> resp.comparison])

NextTurn ==
    \/ \E c \in ClickPoints : MapClick(c[1], c[2])
    \/ PointButton
    \/ RegionButton
    \/ PanelClose
    \/ ApiSetSelectedRegion([type |-> "featureId", id |-> "cell-1"])
    \/ GetInsightAtPointRun
    \/ \E data \in Bodies : GetInsightAtPointResolve(data)
    \/ GetInsightForRegionRun
    \/ \E data \in Bodies : GetInsightForRegionResolve(data)
    \/ FindExtremeRun
    \/ \E data \in Bodies : FindExtremeResolve(data)
    \/ AnalyzeTemporalTrendsRun
    \/ \E data \in Bodies : AnalyzeTemporalTrendsResolve(data)
    \/ AnalyzeProximityRun
    \/ \E data \in Bodies : AnalyzeProximityResolve(data)
    \/ GetPlaceNameRun
    \/ \E resp \in GeocodeResponses : GetPlaceNameResolve(resp)
    \/ CompareLocationsRun
    \/ \E resp \in GeocodeResponses : CompareGeocodeResolve(resp)
    \/ \E resp \in Bodies : CompareExtremeResolve(resp)
    \/ \E resp \in Bodies : CompareLocationsResolve(resp)
    \/ ShowOnMapRun
    \/ \E resp \in GeocodeResponses : SearchPlacesResolve(resp)

SpecTurn == InitTurn /\ [][NextTurn]_vars

(***************************************************************************)
(* The renderer against flyTo alone: the map instance becomes available    *)
(* at some point, MapComponent renders and runs its effect, and flyTo is   *)
(* called with any of FlyToArgs.  React runs a scheduled render and effect *)
(* and the map finishes loading, hence the weak fairness of the three.     *)
(***************************************************************************)
NextCamera ==
    \/ MapLoad
    \/ MapRender
    \/ FlyToEffect
    \/ \E a \in FlyToArgs : ApiFlyTo(a)

SpecCamera == Init /\ [][NextCamera]_vars

FairCamera ==
    SpecCamera /\ WF_vars(MapLoad) /\ WF_vars(MapRender) /\ WF_vars(FlyToEffect)

(***************************************************************************)
(* The panel writes of the tools over the panel as earlier turns have left *)
(* it: empty, after a compare_locations, or after a compare_locations and  *)
(* a get_insight_at_point; the user toggles and closes the panel in        *)
(* between.                                                                *)
(***************************************************************************)
InitWrites ==
    /\ \/ StoreIs(defaultState)
       \/ StoreIs(compareLocations(defaultState, [kind |-> "json",
                      comparison |-> <<[id |-> "b", metrics |-> TRUE]>>]))
       \/ StoreIs(getInsightAtPoint(
                      compareLocations(defaultState, [kind |-> "json",
                          comparison |-> <<[id |-> "b", metrics |-> TRUE]>>]),
                      [longitude |-> -122450, latitude |-> 37770],
                      [kind |-> "json", status |-> "success", properties |-> "some"]))
    /\ mapReady = FALSE
    /\ effectDeps = Null
    /\ effectQueued = FALSE
    /\ applied = <<>>
    /\ pending \in
          {[op |-> "get_insight_at_point", stage |-> "called", request |-> Null,
            args |-> [longitude |-> -122420, latitude |-> 37774]],
           [op |-> "get_insight_for_region", stage |-> "called", request |-> Null,
            args |-> [bbox |-> <<-122460, 37700, -122450, 37710>>, feature_id |-> NoId]],
           [op |-> "compare_locations", stage |-> "called", mapboxToken |-> FALSE,
            args |-> [targets |-> <<[kind |-> "feature", id |-> "cell-7"]>>,
                      add_extreme |-> Null]],
           [op |-> "show_on_map",
            args |-> [NoArgs EXCEPT !.locations =
                         <<[CenterLoc(-122480, 37760) EXCEPT !.hasMetrics = TRUE]>>]]}
    /\ toolResult = Null

NextWrites ==
    \/ PanelToggle
    \/ PanelClose
    \/ GetInsightAtPointRun
    \/ \E data \in Bodies : GetInsightAtPointResolve(data)
    \/ GetInsightForRegionRun
    \/ \E data \in Bodies : GetInsightForRegionResolve(data)
    \/ CompareLocationsRun
    \/ \E resp \in Bodies : CompareLocationsResolve(resp)
    \/ ShowOnMapRun

SpecWrites == InitWrites /\ [][NextWrites]_vars

(***************************************************************************)
(* Properties                                                              *)
(***************************************************************************)
LngInRange(x) == IsFinite(x) /\ -180000 <= x /\ x <= 180000

LatInRange(x) == IsFinite(x) /\ -90000 <= x /\ x <= 90000

ZoomInRange(z) == IsFinite(z) /\ 1 <= z /\ z <= 18

ViewInRange(v) ==
    LngInRange(v.longitude) /\ LatInRange(v.latitude) /\ ZoomInRange(v.zoom)

SameTriple(v, a) ==
    v.longitude = a.longitude /\ v.latitude = a.latitude /\ v.zoom = a.zoom

\* C1: in every reachable state SelectedPoint and SelectedRegion are not both
\* non-null.
C1_NeverBothSelected == ~(selectedPoint # Null /\ selectedRegion # Null)

\* an agent operation has set a point while the user is in region mode
C1_Witness ==
    /\ selectionMode = "region"
    /\ selectedPoint # Null
    /\ selectedRegion = Null
    /\ nextReqId > 1

\* C2: in every reachable state a SelectedRegion of bbox type has
\* bbox[0] <= bbox[2] and bbox[1] <= bbox[3], whichever operation set it.
C2_BboxOrdered ==
    (selectedRegion # Null /\ selectedRegion.type = "bbox") =>
        /\ selectedRegion.bbox[1] <= selectedRegion.bbox[3]
        /\ selectedRegion.bbox[2] <= selectedRegion.bbox[4]

\* C3: in region mode a map click with no pending corner records the corner
\* and clears both selections; a map click with corner A pending selects the
\* bbox spanned by A and the click, its coordinates in min/max order, and
\* clears the corner.
C3_RegionDrawing ==
    [][\A c \in ClickPoints :
         (MapClick(c[1], c[2]) /\ selectionMode = "region") =>
            IF bboxCorner1 = Null
            THEN /\ bboxCorner1' = LngLat(c[1], c[2])
                 /\ selectedPoint' = Null
                 /\ selectedRegion' = Null
            ELSE /\ bboxCorner1' = Null
                 /\ selectedRegion' # Null
                 /\ selectedRegion'.type = "bbox"
                 /\ LET b == selectedRegion'.bbox
                    IN  /\ b[1] <= b[3] /\ b[2] <= b[4]
                        /\ {b[1], b[3]} = {bboxCorner1.lng, c[1]}
                        /\ {b[2], b[4]} = {bboxCorner1.lat, c[2]}]_vars

\* a region drawn from a corner and a second click east and south of it
C3_Witness ==
    /\ selectionMode = "region"
    /\ bboxCorner1 = Null
    /\ selectedRegion = BboxRegion(<<-122450, 37760, -122420, 37770>>)

\* C4: a pending BboxCorner1 implies region mode, and right after either mode
\* button BboxCorner1 is null.
C4_CornerOnlyInRegionMode ==
    [][/\ bboxCorner1 # Null => selectionMode = "region"
       /\ bboxCorner1' # Null => selectionMode' = "region"
       /\ (PointButton \/ RegionButton) => bboxCorner1' = Null]_vars

\* a corner is pending
C4_Witness == bboxCorner1 # Null /\ selectionMode = "region" /\ nextReqId > 1

\* C5: a step that installs a new point or region selection leaves no pending
\* BboxCorner1.
C5_FreshSelectionDiscardsCorner ==
    [][(\/ selectedPoint' # Null /\ selectedPoint' # selectedPoint
        \/ selectedRegion' # Null /\ selectedRegion' # selectedRegion)
       => bboxCorner1' = Null]_vars

\* C6: one call of setSelectedPoint(p) leaves the region and the corner null,
\* and one call of setSelectedRegion(r) leaves the point and the corner null.
C6_SettersEnforceExclusivity ==
    [][/\ \A p \in ApiPoints :
            ApiSetSelectedPoint(p) =>
                selectedPoint' = p /\ selectedRegion' = Null /\ bboxCorner1' = Null
       /\ \A r \in ApiRegions :
            ApiSetSelectedRegion(r) =>
                selectedRegion' = r /\ selectedPoint' = Null /\ bboxCorner1' = Null]_vars

\* C7: after flyTo with finite arguments the stored Viewport is in range.
C7_FlyToClampsViewport ==
    [][\A a \in NavigateArgs :
         (NavigateMap(a) /\ IsFinite(a.longitude) /\ IsFinite(a.latitude))
            => ViewInRange(viewport')]_vars

\* C8: flyTo with a non-finite longitude or latitude creates no FlyToRequest
\* and leaves Viewport unchanged.
C8_NonFiniteFlyToDropped ==
    [][\A a \in FlyToArgs :
         (ApiFlyTo(a) /\ (~IsFinite(a.longitude) \/ ~IsFinite(a.latitude)))
            => flyToRequest' = flyToRequest /\ viewport' = viewport]_vars

\* C9: flyTo(lng, lat, z) with in-range arguments leaves Viewport and
\* FlyToRequest equal to (lng, lat, z); clearFlyToRequest() leaves FlyToRequest
\* null and Viewport as it was, and called with no request pending it changes
\* nothing.
C9_FlyToThenClear ==
    [][/\ \A a \in FlyToArgs :
            (ApiFlyTo(a) /\ a.zoom # Absent /\ ViewInRange(a)) =>
                /\ SameTriple(viewport', a)
                /\ flyToRequest' # Null
                /\ SameTriple(flyToRequest', a)
       /\ ApiClearFlyToRequest => (flyToRequest' = Null /\ viewport' = viewport)
       /\ (ApiClearFlyToRequest /\ flyToRequest = Null) => UNCHANGED vars]_vars

\* flyTo(-122.420, 37.774, 14) was called and its request cleared
C9_Witness ==
    /\ flyToRequest = Null
    /\ nextReqId > 1
    /\ viewport = [longitude |-> -122420, latitude |-> 37774, zoom |-> 14]

\* C10: requests are handed to the camera in the order flyTo made them, none
\* twice; the step that hands one over clears FlyToRequest; and a flyTo leaves
\* its own request as the only pending one.
C10_AtMostOnce ==
    [][/\ \A i, j \in DOMAIN applied' : i < j => applied'[i].id < applied'[j].id
       /\ Len(applied') > Len(applied) => flyToRequest' = Null
       /\ nextReqId' # nextReqId =>
            (flyToRequest' # Null /\ flyToRequest'.id = nextReqId)]_vars

\* the first request was overwritten before the renderer saw it, and only the
\* second reached the camera
C10_Witness ==
    /\ nextReqId = 3
    /\ Len(applied) = 1
    /\ applied[1].id = 2
    /\ flyToRequest = Null

\* what a locations item offers, whatever the order it is read in
HasNumericBbox(loc) == Len(loc.bbox) = 4 /\ \A k \in 1..4 : IsFinite(loc.bbox[k])

HasDirect(loc) == loc.longitude # Absent /\ loc.latitude # Absent

HasCenter(loc) == loc.center.longitude # Absent /\ loc.center.latitude # Absent

\* no field of the item holds usable coordinates
Unparsable(loc) ==
    \/ loc.falsy
    \/ /\ ~HasNumericBbox(loc)
       /\ ~(IsFinite(loc.longitude) /\ IsFinite(loc.latitude))
       /\ ~(IsFinite(loc.center.longitude) /\ IsFinite(loc.center.latitude))

\* the highlight an item stands for by the priority bbox, direct fields,
\* center; Null when it is discarded
ExpectedHighlight(loc) ==
    IF loc.falsy THEN Null
    ELSE IF HasNumericBbox(loc) THEN [type |-> "bbox", bbox |-> loc.bbox]
    ELSE IF HasDirect(loc)
    THEN (IF IsFinite(loc.longitude) /\ IsFinite(loc.latitude)
          THEN Point(loc.longitude, loc.latitude) ELSE Null)
    ELSE IF HasCenter(loc)
    THEN (IF IsFinite(loc.center.longitude) /\ IsFinite(loc.center.latitude)
          THEN Point(loc.center.longitude, loc.center.latitude) ELSE Null)
    ELSE Null

ExpectedSeq(locations) ==
    SelectSeq([k \in 1..Len(locations) |-> ExpectedHighlight(locations[k])],
              LAMBDA h : h # Null)

AcceptedItems(locations) ==
    SelectSeq(locations, LAMBDA loc : ExpectedHighlight(loc) # Null)

MinOf(S) == CHOOSE x \in S : \A y \in S : x <= y

MaxOf(S) == CHOOSE x \in S : \A y \in S : x >= y

\* every longitude and every latitude of a sequence of highlights
AllLngs(hs) ==
    UNION {IF hs[k].type = "bbox" THEN {hs[k].bbox[1], hs[k].bbox[3]}
           ELSE {hs[k].lng} : k \in DOMAIN hs}

AllLats(hs) ==
    UNION {IF hs[k].type = "bbox" THEN {hs[k].bbox[2], hs[k].bbox[4]}
           ELSE {hs[k].lat} : k \in DOMAIN hs}

UnionSpan(hs) ==
    Max(MaxOf(AllLngs(hs)) - MinOf(AllLngs(hs)),
        MaxOf(AllLats(hs)) - MinOf(AllLats(hs)))

UnionCenter(hs) ==
    [longitude |-> (MinOf(AllLngs(hs)) + MaxOf(AllLngs(hs))) \div 2,
     latitude |-> (MinOf(AllLats(hs)) + MaxOf(AllLats(hs))) \div 2]

SameCenter(v, c) == v.longitude = c.longitude /\ v.latitude = c.latitude

\* C11: every show-on-map call that replaces the HighlightedLocation sequence
\* (with a locations list, a bbox or coordinates) completes with SelectedPoint
\* and SelectedRegion both null.
C11_ReplacingHighlightsClearsSelection ==
    [][\A a \in ShowOnMapArgs :
         (ShowOnMap(a) /\ ShowOnMapBranch(a) # "error")
            => (selectedPoint' = Null /\ selectedRegion' = Null)]_vars

\* C12: every direct map click, in point mode or as the first or second click
\* of region drawing, leaves the HighlightedLocation sequence empty.
C12_ClickEmptiesHighlights ==
    [][\A c \in ClickPoints :
         MapClick(c[1], c[2]) => highlightedLocations' = <<>>]_vars

\* the user clicked the map after the one agent operation so far had shown a
\* location with metrics
C12_Witness ==
    /\ highlightedLocations = <<>>
    /\ selectedPoint = LngLat(-122450, 37770)
    /\ leftSidebarContent # Null
    /\ nextReqId = 2

\* C13: show-on-map with a non-empty locations list of unparsable items only
\* leaves the HighlightedLocation sequence empty and Viewport and FlyToRequest
\* as they were.
C13_AllUnparsableNoFlight ==
    [][(/\ ShowOnMapRun
        /\ \A k \in DOMAIN pending.args.locations :
              Unparsable(pending.args.locations[k]))
       => /\ highlightedLocations' = <<>>
          /\ viewport' = viewport
          /\ flyToRequest' = flyToRequest]_vars

\* a call that accepted no item has run over a session whose first request is
\* still pending
C13_Witness ==
    /\ pending = Null
    /\ toolResult = [success |-> TRUE]
    /\ highlightedLocations = <<>>
    /\ flyToRequest # Null
    /\ flyToRequest.id = 1

\* C14: each item becomes a bbox highlight if it has a numeric 4-element
\* bbox, else a point from its direct fields, else a point from its center,
\* else nothing; the sequence keeps the input order of the accepted items, and
\* the frame is that of the accepted items only.
C14_NormalizationPriority ==
    [][ShowOnMapRun =>
         LET hs == ExpectedSeq(pending.args.locations)
         IN  /\ highlightedLocations' = hs
             /\ IF hs = <<>>
                THEN viewport' = viewport /\ flyToRequest' = flyToRequest
                ELSE /\ SameCenter(viewport', UnionCenter(hs))
                     /\ flyToRequest' # Null
                     /\ SameCenter(flyToRequest', UnionCenter(hs))]_vars

\* the bbox of an item that also had direct fields and a center, then the
\* direct fields of an item that also had a center
C14_Witness ==
    /\ pending = Null
    /\ highlightedLocations =
           <<[type |-> "bbox", bbox |-> <<-122520, 37700, -122500, 37720>>],
             Point(-122340, 37750)>>

\* C15: the label drawn for each accepted item is the label its input item
\* carried, and the 1-based ordinal in the accepted sequence when it carried
\* none.
C15_ExplicitLabelRendered ==
    [][ShowOnMapRun =>
         LET acc == AcceptedItems(pending.args.locations)
             drawn == highlightedToGeoJSON(highlightedLocations')
         IN  /\ Len(drawn) = Len(acc)
             /\ \A k \in DOMAIN acc :
                   drawn[k].label =
                       IF acc[k].label # "" THEN acc[k].label ELSE ToString(k)]_vars

\* the spans of the lists with two or more accepted items
ProjSpans ==
    {UnionSpan(ExpectedSeq(l)) : l \in {m \in ProjLists : Len(ExpectedSeq(m)) >= 2}}

\* C16: with two or more accepted items the framing zoom is 13 for a span
\* under 0.05, 12 for a span under 0.1 and 11 otherwise, whatever zoom the
\* caller passed, and never grows as the span grows.
C16_ZoomTiers ==
    [][(ShowOnMapRun /\ Len(ExpectedSeq(pending.args.locations)) >= 2) =>
         LET span == UnionSpan(ExpectedSeq(pending.args.locations))
             tier == IF span < 50 THEN 13 ELSE IF span < 100 THEN 12 ELSE 11
         IN  /\ flyToRequest' # Null
             /\ flyToRequest'.zoom = tier
             /\ viewport'.zoom = tier
             /\ \A wider \in ProjSpans, n \in 2..MaxLocs :
                   wider >= span =>
                       TargetZoom(n, wider, pending.args.zoom) <= flyToRequest'.zoom]_vars

\* two points 0.1 degree apart are framed at zoom 11
C16_Witness ==
    /\ pending = Null
    /\ highlightedLocations = <<Point(-122440, 37750), Point(-122340, 37750)>>
    /\ flyToRequest # Null
    /\ flyToRequest.zoom = 11

\* a list of one item with a numeric bbox and one item with direct fields only,
\* in either order
MixedPair(locations) ==
    /\ Len(locations) = 2
    /\ \E i, j \in 1..2 :
          /\ i # j
          /\ ~locations[i].falsy /\ HasNumericBbox(locations[i])
          /\ ~locations[j].falsy /\ Len(locations[j].bbox) = 0
          /\ IsFinite(locations[j].longitude) /\ IsFinite(locations[j].latitude)

\* C17: show-on-map with one bbox item and one point item yields one highlight
\* per item in input order, both selections null, and a fly-to target at the
\* midpoint of the union bounding box of the items' coordinates.
C17_MixedListFramed ==
    [][(ShowOnMapRun /\ MixedPair(pending.args.locations)) =>
         LET locs == pending.args.locations
             hs == highlightedLocations'
         IN  /\ Len(hs) = 2
             /\ \A k \in 1..2 :
                   IF HasNumericBbox(locs[k])
                   THEN hs[k].type = "bbox" /\ hs[k].bbox = locs[k].bbox
                   ELSE /\ hs[k].type = "point"
                        /\ hs[k].lng = locs[k].longitude
                        /\ hs[k].lat = locs[k].latitude
             /\ selectedPoint' = Null
             /\ selectedRegion' = Null
             /\ flyToRequest' # Null
             /\ SameCenter(flyToRequest', UnionCenter(hs))]_vars

\* the bbox [-122.46, 37.70, -122.45, 37.71] and the point (-122.44, 37.75),
\* framed at (-122.45, 37.725)
C17_Witness ==
    /\ pending = Null
    /\ highlightedLocations =
           <<[type |-> "bbox", bbox |-> <<-122460, 37700, -122450, 37710>>],
             Point(-122440, 37750)>>
    /\ selectedPoint = Null
    /\ selectedRegion = Null
    /\ flyToRequest # Null
    /\ flyToRequest.longitude = -122450
    /\ flyToRequest.latitude = 37725
    /\ flyToRequest.zoom = 12
    /\ flyToRequest.id = 2

\* C18: setContent(content, {keepPrevious}) makes content current; with
\* keepPrevious and a current content the prior content becomes the alternate,
\* without keepPrevious the alternate is cleared; and toggle() after
\* setContent(A); setContent(B, {keepPrevious: true}) gives current A, alternate B.
C18_SetContentKeepPrevious ==
    [][/\ \A c \in PanelContents, k \in BOOLEAN :
            PanelSetContent(c, k) =>
                /\ leftSidebarContent' = c
                /\ (k /\ leftSidebarContent # Null) =>
                       leftSidebarAltContent' = leftSidebarContent
                /\ ~k => leftSidebarAltContent' = Null
       /\ (PanelToggle /\ leftSidebarContent # Null /\ leftSidebarAltContent # Null) =>
            /\ leftSidebarContent' = leftSidebarAltContent
            /\ leftSidebarAltContent' = leftSidebarContent]_vars

\* current A and alternate B, as after setContent(A); setContent(B, keep); toggle()
C18_Witness ==
    /\ leftSidebarContent = KeyedContent("Location Metrics", 1)
    /\ leftSidebarAltContent = KeyedContent("Region Metrics", 1)

\* C19: toggle() with no alternate content leaves the current slot and the
\* alternate slot unchanged, whatever the current content.
C19_ToggleWithoutAlternateIsNoOp ==
    [][(PanelToggle /\ leftSidebarAltContent = Null) =>
          UNCHANGED <<leftSidebarContent, leftSidebarAltContent>>]_vars

\* C20: with an alternate content, toggle() swaps current and alternate, and
\* a second toggle() restores the pairing.
C20_ToggleTwiceRestores ==
    [][(PanelToggle /\ leftSidebarAltContent # Null) =>
          /\ leftSidebarContent' = leftSidebarAltContent
          /\ leftSidebarAltContent' = leftSidebarContent
          /\ LET back == toggleSidebarView(Store')
             IN  /\ back.leftSidebarContent = leftSidebarContent
                 /\ back.leftSidebarAltContent = leftSidebarAltContent
                 /\ back.isLeftSidebarOpen = isLeftSidebarOpen]_vars

\* an open panel showing a comparison, with the selected locations as alternate
C20_Witness ==
    /\ isLeftSidebarOpen
    /\ leftSidebarContent = KeyedContent("Location Comparison", 1)
    /\ leftSidebarAltContent = KeyedContent("Selected Locations", 2)

\* C21: setLeftSidebarContent leaves the visibility of the panel as it is,
\* whatever the content and keepAlt, and every step of an agent operation
\* that changes the panel content ends with the panel open.
C21_ContentWriteOpensPanel ==
    [][/\ \A c \in PanelContents, k \in BOOLEAN :
              setLeftSidebarContent(Store, c, k).isLeftSidebarOpen = isLeftSidebarOpen
       /\ (pending' # pending /\ leftSidebarContent' # leftSidebarContent)
              => isLeftSidebarOpen']_vars

\* compare_locations has put its comparison into the panel, which is open
C21_Witness ==
    /\ pending = Null
    /\ isLeftSidebarOpen
    /\ leftSidebarContent = KeyedContent("Location Comparison", <<"a", "c">>)

\* C22: get_insight_for_region takes its bbox or feature_id argument when it
\* has one, else the SelectedRegion, else the bbox of 0.003 degree around the
\* SelectedPoint; with none of them it returns the soft error without
\* throwing, without a fetch and without a store write.
C22_RegionTargetOrder ==
    [][(InFlight("get_insight_for_region", "called") /\ pending' # pending) =>
          LET a == pending.args
              awaits(req) == /\ pending' # Null
                             /\ pending'.stage = "fetch"
                             /\ pending'.request = req
          IN  /\ Store' = Store
              /\ IF a.bbox # <<>> \/ a.feature_id # NoId
                 THEN awaits([bbox |-> a.bbox, feature_id |-> a.feature_id])
                 ELSE IF selectedRegion # Null
                 THEN IF selectedRegion.type = "bbox"
                      THEN awaits([bbox |-> selectedRegion.bbox, feature_id |-> NoId])
                      ELSE awaits([bbox |-> <<>>, feature_id |-> selectedRegion.id])
                 ELSE IF selectedPoint # Null
                 THEN awaits([bbox |-> <<selectedPoint.lng - 3, selectedPoint.lat - 3,
                                         selectedPoint.lng + 3, selectedPoint.lat + 3>>,
                              feature_id |-> NoId])
                 ELSE /\ pending' = Null
                      /\ "error" \in DOMAIN toolResult'
                      /\ ~toolResult'.thrown]_vars

\* the region of the request was made around the point the user had clicked
C22_Witness ==
    /\ InFlight("get_insight_for_region", "fetch")
    /\ pending.args = [bbox |-> <<>>, feature_id |-> NoId]
    /\ pending.request.bbox = <<-122453, 37767, -122447, 37773>>

\* C23: compare_locations with targets = ["selected"], no add_extreme and no
\* SelectedPoint returns the "no valid locations" soft error, fetches nothing
\* and leaves the panel content, alternate and visibility as they were.
C23_SelectedWithoutSelection ==
    [][(/\ InFlight("compare_locations", "called")
        /\ pending' # pending
        /\ pending.args.targets = <<[kind |-> "selected"]>>
        /\ pending.args.add_extreme = Null
        /\ selectedPoint = Null)
       => /\ toolResult' = NoLocations
          /\ pending' = Null
          /\ Store' = Store]_vars

\* the error was returned with no point selected and the panel untouched
C23_Witness ==
    /\ toolResult = NoLocations
    /\ pending = Null
    /\ selectedPoint = Null
    /\ selectedRegion # Null
    /\ leftSidebarContent = Null
    /\ ~isLeftSidebarOpen

\* C24: analyze_temporal_trends called with no longitude, latitude and
\* feature_id asks the data service about the SelectedPoint, and with no
\* SelectedPoint returns a soft error without a fetch, whatever the
\* SelectedRegion is.
C24_TrendFallsBackToPointOnly ==
    [][(/\ InFlight("analyze_temporal_trends", "called")
        /\ pending' # pending
        /\ pending.args.longitude = Absent
        /\ pending.args.latitude = Absent
        /\ pending.args.feature_id = NoId)
       => IF selectedPoint # Null
          THEN /\ pending' # Null
               /\ pending'.request = [longitude |-> selectedPoint.lng,
                                      latitude |-> selectedPoint.lat,
                                      feature_id |-> NoId]
          ELSE /\ pending' = Null
               /\ "error" \in DOMAIN toolResult']_vars

\* C25: no agent operation ends by throwing: what it hands to the agent is a
\* value, also when a fetch of the data service was rejected.
C25_OperationsNeverThrow == toolResult # Thrown

\* the targets of ts before its first place name that add to finalTargets, in
\* order, with what each adds
ResolvedBeforePlace(ts, closurePoint) ==
    LET places == {i \in 1..Len(ts) : ts[i].kind = "place"}
        k == IF places = {} THEN Len(ts) + 1
             ELSE CHOOSE i \in places : \A j \in places : i <= j
        idx == {i \in 1..(k - 1) : CompareTarget(ts[i], closurePoint) # <<>>}
        ith(n) == CHOOSE i \in idx : Cardinality({x \in idx : x < i}) = n - 1
    IN  [next |-> k,
         added |-> [n \in 1..Cardinality(idx) |->
                       CompareTarget(ts[ith(n)], closurePoint)[1]]]

\* C26: in compare_locations a place name whose geocoding fails or finds
\* nothing is skipped: the targets resolved before it stay in finalTargets, the
\* targets after it are resolved in order, and the tool ends with the "no
\* valid locations" error only when nothing at all was resolved.
C26_FailedGeocodeIsSkipped ==
    [][\A resp \in GeocodeResponses :
         (~(resp.ok /\ Len(resp.features) > 0) /\ CompareGeocodeResolve(resp)) =>
            LET after == Tail(pending.rest)
                r == ResolvedBeforePlace(after, pending.selectedPoint)
                L == pending.finalTargets \o r.added
            IN  /\ Store' = Store
                /\ IF r.next <= Len(after)
                   THEN /\ pending' # Null
                        /\ pending'.stage = "geocode"
                        /\ pending'.rest = SubSeq(after, r.next, Len(after))
                        /\ pending'.finalTargets = L
                   ELSE IF pending' = Null
                   THEN L = <<>> /\ toolResult' = NoLocations
                   ELSE /\ pending'.stage \in {"extreme", "compare"}
                        /\ L # <<>> => pending'.finalTargets = L]_vars

\* the place was looked up and not found, and the comparison of the two other
\* targets is being fetched
C26_Witness ==
    /\ InFlight("compare_locations", "compare")
    /\ pending.mapboxToken
    /\ pending.args.add_extreme = Null
    /\ pending.args.targets = <<[kind |-> "feature", id |-> "cell-7"],
                                [kind |-> "place", query |-> "Glen Park"]>>
    /\ pending.finalTargets = <<[feature_id |-> "cell-7"]>>

\* C27: an operation reads the selection when it resolves its target, before
\* the fetch; the request in flight stays what it was then, whatever the user
\* selects meanwhile; and the operation writes to the store only in the step
\* in which its last fetch has resolved.
C27_ResolveThenFetchThenWrite ==
    [][/\ (/\ InFlight("get_insight_at_point", "called")
           /\ pending' # pending
           /\ (pending.args.longitude = Absent \/ pending.args.latitude = Absent)
           /\ selectedPoint # Null)
          => /\ pending' # Null
             /\ pending'.request = [longitude |-> selectedPoint.lng,
                                    latitude |-> selectedPoint.lat]
       /\ (/\ InFlight("get_insight_for_region", "called")
           /\ pending' # pending
           /\ pending.args = [bbox |-> <<>>, feature_id |-> NoId]
           /\ selectedRegion # Null
           /\ selectedRegion.type = "bbox")
          => /\ pending' # Null
             /\ pending'.request.bbox = selectedRegion.bbox
       /\ (pending # Null /\ "request" \in DOMAIN pending /\ pending.stage = "fetch"
              /\ pending' # Null)
          => pending'.request = pending.request
       /\ (pending' # pending /\ Store' # Store)
          => /\ pending' = Null
             /\ "stage" \in DOMAIN pending => pending.stage \in {"fetch", "compare"}]_vars

\* the request in flight is about the point that was selected when the tool
\* started, and the user has selected another since
C27_Witness ==
    /\ InFlight("get_insight_at_point", "fetch")
    /\ pending.args.longitude = Absent
    /\ pending.request = [longitude |-> -122450, latitude |-> 37770]
    /\ selectedPoint = LngLat(-122400, 37800)

\* C28: as long as an operation is in flight after a step, the step has left
\* the store as it was unless it was the user's: the operation writes nothing
\* before its fetch has resolved, and nothing at all if it never does.
C28_PendingFetchWritesNothing ==
    [][(pending' # Null /\ Store' # Store) => pending' = pending]_vars

\* search_places is in flight and the user has drawn a region meanwhile
C28_Witness ==
    /\ pending = [op |-> "search_places"]
    /\ selectedRegion = BboxRegion(<<-122450, 37770, -122400, 37800>>)
    /\ flyToRequest = Null
    /\ leftSidebarContent = Null

\* C29: when the fetch of get_insight_at_point succeeds, the panel gets the
\* metrics of the location the tool resolved at its start, whatever is
\* selected by then, and the selection, the mode and the pending corner stay
\* as the user's last click or mode switch left them.
C29_LastWriteWins ==
    [][\A data \in Bodies :
         (PointInsightWrites(data) /\ GetInsightAtPointResolve(data)) =>
            /\ leftSidebarContent' =
                   KeyedContent("Location Metrics",
                                <<pending.request.longitude, pending.request.latitude>>)
            /\ isLeftSidebarOpen'
            /\ selectedPoint' = selectedPoint
            /\ selectedRegion' = selectedRegion
            /\ selectionMode' = selectionMode
            /\ bboxCorner1' = bboxCorner1
            /\ highlightedLocations' = highlightedLocations]_vars

\* the panel shows the metrics of the point clicked first, while the user has
\* switched to region mode and set a first corner
C29_Witness ==
    /\ pending = Null
    /\ toolResult # Null
    /\ leftSidebarContent = KeyedContent("Location Metrics", <<-122450, 37770>>)
    /\ selectedPoint = Null
    /\ selectionMode = "region"
    /\ bboxCorner1 = LngLat(-122400, 37800)

\* C30: show_on_map with no non-empty locations, no bbox and not both of
\* longitude and latitude returns { success: false, error } and leaves every
\* store as it was.
C30_ShowOnMapWithoutTarget ==
    [][(/\ pending # Null
        /\ pending.op = "show_on_map"
        /\ pending' # pending
        /\ Len(pending.args.locations) = 0
        /\ Len(pending.args.bbox) = 0
        /\ (pending.args.longitude = Absent \/ pending.args.latitude = Absent))
       => /\ Store' = Store
          /\ toolResult'.success = FALSE
          /\ "error" \in DOMAIN toolResult']_vars

\* the error was returned and the point the user had clicked is still selected
C30_Witness ==
    /\ pending = Null
    /\ toolResult = [success |-> FALSE,
                     error |-> "Provide locations array, or (longitude, latitude), or bbox."]
    /\ selectedPoint = LngLat(-122450, 37770)

\* C31: get_insight_at_point, analyze_proximity and get_place_name called
\* without both coordinates go on with the selected point when there is one;
\* when there is none they return an error record in the same step, without
\* throwing, without a request, and with the store as it was.
C31_MissingPointIsSoftError ==
    [][(/\ pending # Null
        /\ pending.op \in {"get_insight_at_point", "analyze_proximity", "get_place_name"}
        /\ pending.stage = "called"
        /\ pending' # pending
        /\ (pending.args.longitude = Absent \/ pending.args.latitude = Absent))
       => IF selectedPoint = Null
          THEN /\ pending' = Null
               /\ toolResult'.thrown = FALSE
               /\ "error" \in DOMAIN toolResult'
               /\ Store' = Store
          ELSE /\ pending' # Null =>
                    /\ pending'.stage = "fetch"
                    /\ pending'.request.longitude = selectedPoint.lng
                    /\ pending'.request.latitude = selectedPoint.lat
               /\ pending' = Null =>
                    pending.op = "get_place_name" /\ ~pending.mapboxToken]_vars

\* analyze_proximity has returned its error while the user was drawing a
\* region, and the corner is still there
C31_Witness ==
    /\ pending = Null
    /\ toolResult = SoftError("No point selected. Provide location or select a point.")
    /\ selectedPoint = Null
    /\ selectionMode = "region"
    /\ bboxCorner1 # Null

\* C32: an item whose 4-element bbox has a coordinate that is not a number is
\* skipped: the highlights and the frame are those of the list without such
\* items.
C32_BadBboxItemSkipped ==
    [][ShowOnMapRun =>
         LET kept == SelectSeq(pending.args.locations,
                               LAMBDA loc : ~(/\ ~loc.falsy
                                              /\ Len(loc.bbox) = 4
                                              /\ \E k \in 1..4 : loc.bbox[k] = NaN))
             hs == ExpectedSeq(kept)
         IN  /\ highlightedLocations' = hs
             /\ IF hs = <<>>
                THEN viewport' = viewport /\ flyToRequest' = flyToRequest
                ELSE /\ SameCenter(viewport', UnionCenter(hs))
                     /\ flyToRequest' # Null
                     /\ SameCenter(flyToRequest', UnionCenter(hs))]_vars

\* C33: when the loop of compare_locations is over (before the add_extreme
\* results are added), finalTargets holds the point that was selected at the
\* call once per "selected"/"current" entry; with no such entry it holds that
\* point only as the single target, which it is whenever a point was selected
\* and nothing else resolved; with no point selected nothing is added.
C33_SelectedPointIsSingleFallback ==
    (/\ pending # Null
     /\ pending.op = "compare_locations"
     /\ \/ pending.stage = "extreme"
        \/ pending.stage = "compare" /\ pending.add_extreme = Null)
    => LET F == pending.finalTargets
           ts == pending.args.targets
           nSel == Cardinality({i \in 1..Len(ts) : ts[i].kind = "selected"})
           P == pending.selectedPoint
           occ == Cardinality({i \in 1..Len(F) : P # Null /\ F[i] = AtPoint(P)})
       IN  /\ P # Null => F # <<>>
           /\ P = Null => occ = 0
           /\ (P # Null /\ nSel > 0) => occ = nSel
           /\ (P # Null /\ nSel = 0 /\ occ > 0) => F = <<AtPoint(P)>>

\* neither the malformed point nor the place that was not found resolved, and
\* the comparison is fetched for the point the user had clicked
C33_Witness ==
    /\ InFlight("compare_locations", "compare")
    /\ pending.mapboxToken
    /\ pending.args.targets = <<[kind |-> "point", parts |-> <<NaN, 37750>>],
                                [kind |-> "place", query |-> "Glen Park"]>>
    /\ pending.finalTargets = <<[longitude |-> -122450, latitude |-> 37770]>>

\* C34: in every reachable state, when highlightedLocations is not empty no
\* point and no region is selected.
C34_HighlightsExcludeSelection ==
    highlightedLocations # <<>> => (selectedPoint = Null /\ selectedRegion = Null)

\* C35: after flyTo(longitude, latitude) without zoom the request and the
\* viewport carry the same zoom, that of the viewport before the call.
C35_OmittedZoomSameInBoth ==
    [][\A a \in FlyToArgs :
         (ApiFlyTo(a) /\ a.zoom = Absent) =>
            /\ flyToRequest' # Null
            /\ viewport'.zoom = viewport.zoom
            /\ flyToRequest'.zoom = viewport'.zoom]_vars

\* C36: every camera move the effect makes has its longitude in [-180, 180],
\* its latitude in [-90, 90] and its zoom in [1, 18]; the effect run for a
\* request whose longitude or latitude is not finite clears the request and
\* moves nothing.
C36_CameraMovesInRange ==
    [][/\ Len(applied') > Len(applied) =>
            ViewInRange(applied'[Len(applied')].move)
       /\ (FlyToEffect /\ mapReady /\ effectDeps # Null /\ EffectDrops(effectDeps))
          => (applied' = applied /\ flyToRequest' = Null)]_vars

\* flyTo(200, -95, 25) reached the camera as (180, -90, 18), and a second
\* request was cleared without a move
C36_Witness ==
    /\ applied = <<[id |-> 1,
                    move |-> [longitude |-> 180000, latitude |-> -90000, zoom |-> 18]]>>
    /\ nextReqId = 3
    /\ effectDeps # Null
    /\ effectDeps.id = 2
    /\ EffectDrops(effectDeps)
    /\ ~effectQueued
    /\ flyToRequest = Null

\* C37: once the map is available, a pending request is eventually applied
\* and cleared by the effect or replaced by a later flyTo, whenever it was
\* made.
C37_RequestEventuallyServed ==
    \A i \in 1..MaxFlyTo :
        (mapReady /\ flyToRequest # Null /\ flyToRequest.id = i)
            ~> (flyToRequest = Null \/ flyToRequest.id # i)

\* C38: no step of an agent operation changes selectionMode, whatever
\* selection it sets.
C38_OperationsKeepSelectionMode ==
    [][pending' # pending => selectionMode' = selectionMode]_vars

\* show_on_map has selected a region while the mode is point
C38_Witness ==
    /\ pending = Null
    /\ toolResult = [success |-> TRUE]
    /\ selectedRegion = BboxRegion(<<-122460, 37700, -122450, 37710>>)
    /\ selectionMode = "point"

\* C39: show_on_map with a non-empty locations argument takes the locations
\* branch whatever bbox and coordinates it is given: afterwards no point and
\* no region is selected and the highlights are those of the items; with
\* locations empty it takes the bbox, else the coordinates, else returns the
\* error.
C39_LocationsTakePrecedence ==
    [][(pending # Null /\ pending.op = "show_on_map" /\ pending' # pending) =>
         LET a == pending.args
         IN  IF Len(a.locations) > 0
             THEN /\ selectedPoint' = Null
                  /\ selectedRegion' = Null
                  /\ highlightedLocations' = ExpectedSeq(a.locations)
                  /\ toolResult' = [success |-> TRUE]
             ELSE IF Len(a.bbox) = 4
             THEN /\ selectedRegion' = BboxRegion(a.bbox)
                  /\ selectedPoint' = Null
             ELSE IF a.longitude # Absent /\ a.latitude # Absent
             THEN /\ selectedPoint' = LngLat(a.longitude, a.latitude)
                  /\ selectedRegion' = Null
             ELSE toolResult'.success = FALSE]_vars

\* the call whose only locations item was unparsable has succeeded: nothing
\* is highlighted or selected and no flight was requested, for all its bbox
\* and coordinates
C39_Witness ==
    /\ pending = Null
    /\ toolResult = [success |-> TRUE]
    /\ highlightedLocations = <<>>
    /\ selectedPoint = Null
    /\ selectedRegion = Null
    /\ flyToRequest = Null
    /\ nextReqId = 1
    /\ selectionMode = "region"

\* C40: a panel write of compare_locations empties the alternate slot, so
\* that a toggle right after it leaves the comparison as the current
\* content; a panel write of get_insight_at_point, get_insight_for_region or
\* show_on_map over a current content puts that content into the alternate
\* slot.
C40_CompareClearsAlternate ==
    [][(pending # Null /\ pending' # pending
           /\ leftSidebarContent' # leftSidebarContent) =>
         IF pending.op = "compare_locations"
         THEN /\ leftSidebarAltContent' = Null
              /\ toggleSidebarView(Store').leftSidebarContent = leftSidebarContent'
         ELSE /\ leftSidebarContent # Null =>
                    leftSidebarAltContent' = leftSidebarContent
              /\ leftSidebarContent = Null =>
                    leftSidebarAltContent' = leftSidebarAltContent]_vars

\* compare_locations has written: the comparison is shown in the open panel
\* and the alternate slot is empty
C40_Witness ==
    /\ pending = Null
    /\ isLeftSidebarOpen
    /\ leftSidebarContent = KeyedContent("Location Comparison", <<"a", "c">>)
    /\ leftSidebarAltContent = Null

====
